---- MODULE Spec2Model ----
(***************************************************************************)
(* pgmount: the automount daemon (daemon/daemon.go), the device records    *)
(* its scans create (device package) and the tray handlers that call into  *)
(* it (tray package, cmd/pgmountd main).                                   *)
(*                                                                         *)
(* Threads: the goroutine of monitorDevd/pollDevices ("poll"), a menu-item *)
(* handler goroutine of the tray, and main, which calls Start and Stop.    *)
(* Device records are heap objects shared by pointer: the record a caller  *)
(* hands to mountDevice is the one stored in d.mounted.                    *)
(***************************************************************************)
EXTENDS Integers, Sequences, FiniteSets, TLC

\* Size of the pool of device records (records no longer referenced are reused).
MaxRecs == 4

\* The removable devices a scan can report: the partitions da0p1 and da1p1 (a GELI
\* volume) and da2, a disk without partitions. The disks that carry da0p1 and da1p1
\* are listed by a scan too and are handled as da2 is; they are left out.
Paths == {"da0p1", "da1p1", "da2"}

\* Scan orders: the listing tools report the disks, and so the partitions, in
\* the order of their names.
PathOrders == {<<>>, <<"da0p1">>, <<"da1p1">>, <<"da2">>,
               <<"da0p1", "da1p1">>, <<"da0p1", "da2">>}

TrayThreads == {"tray1"}

\* The threads that call into mountDevice / unmountDevice: the poll goroutine, the
\* tray's menu handlers and the caller of a mount-all operation.
Threads == {"poll", "mountall"} \cup TrayThreads

\* The mount-all operations: Daemon.MountAll (pgmountd --mount-all), the tray's
\* Mount All and pgmount -a.
Fronts == {"MountAll", "onMountAll", "pgmount"}

RecIds == 1..MaxRecs

\* config.DeviceConfig entries (device_config) for da0p1, matched by device_path;
\* Automount is a *bool: "nil" when the entry does not set it.
DeviceConfigs ==
    { [DevicePath |-> "da0p1", Ignore |-> TRUE, Automount |-> "nil"],
      [DevicePath |-> "da0p1", Ignore |-> TRUE, Automount |-> "true"],
      [DevicePath |-> "da0p1", Ignore |-> FALSE, Automount |-> "true"],
      [DevicePath |-> "da0p1", Ignore |-> FALSE, Automount |-> "false"] }

\* What GetDeviceConfig returns when no entry matches (nil).
NoDeviceConfig == [DevicePath |-> "", Ignore |-> FALSE, Automount |-> "nil"]

\* The configurations the daemon is run with (config.Default and variations).
Configs ==
    { [Automount |-> a, GELIEnabled |-> g, PasswordCmd |-> c, TrayEnabled |-> y,
       Devices |-> d] :
        a \in BOOLEAN, g \in BOOLEAN, c \in BOOLEAN, y \in BOOLEAN,
        d \in {<<>>} \cup { <<e>> : e \in DeviceConfigs } }

\* The machines the daemon is run on: a configuration and the partitions of the
\* machine's removable disks. With the tray the machine has one partition.
Machines ==
    { [cfg |-> c, parts |-> P] : c \in Configs, P \in (SUBSET Paths) \ {{}} }

\* The machines looked at. With the tray the machine has one partition; a
\* device_config entry or the bare disk da2 comes with the poll loop alone and a
\* password command, on a machine with da0p1 or nothing else.
Scenarios ==
    { m \in Machines :
        /\ m.cfg.TrayEnabled => Cardinality(m.parts) = 1
        /\ (m.cfg.Devices # <<>> \/ "da2" \in m.parts) =>
              /\ ~m.cfg.TrayEnabled
              /\ m.cfg.GELIEnabled
              /\ m.cfg.PasswordCmd
              /\ m.parts \in {{"da0p1"}, {"da2"}, {"da0p1", "da2"}} }

VARIABLES
    parts,        \* hardware: the partitions of the machine's removable disks
    present,      \* hardware: the partitions attached now
    osMounted,    \* the OS mount table: the paths mounted (on their mount directory)
    config,       \* *config.Config
    heap,         \* the device records that are shared by pointer, by id
    mounted,      \* Daemon.mounted: path -> record id, 0 when absent
    pc,           \* position of each thread
    rec,          \* the record (dev) a thread holds: of its call, or of its menu item
    ret,          \* what the thread's call returned, while the caller handles it
    known,        \* pollDevices: knownDevices
    devices,      \* pollDevices: what the first loop has still to visit of the scan's list
    current,      \* pollDevices: currentDevices
    tickAdded,    \* paths for which onDeviceAdded was called in the current tick
    tickRemoved,  \* paths for which onDeviceRemoved was called in the current tick
    prevKnown,    \* knownDevices as it was when the current tick began
    stopChan,     \* Daemon.stopChan is closed
    wg,           \* Daemon.wg counter
    mainpc,       \* position of main
    mountAll,     \* a mount-all operation: its scan's list, its loop index, and the
                  \* paths it called mountDevice for and those whose mount failed
    arg,          \* the input of the function looked at on its own, <<>> when none is
    result        \* <<what the function returned>>, <<>> before it has run

vars == <<parts, present, osMounted, config, heap, mounted, pc, rec, ret,
          known, devices, current, tickAdded, tickRemoved, prevKnown,
          stopChan, wg, mainpc, mountAll, arg, result>>

funVars == <<arg, result>>
envVars == <<parts, present, osMounted, config, funVars>>
callVars == <<heap, mounted, pc, rec, ret>>
pollVars == <<known, devices, current, tickAdded, tickRemoved, prevKnown>>
mainVars == <<stopChan, wg, mainpc, mountAll>>

\* A free cell of the record pool.
NoRec == [Path |-> "", IsMounted |-> FALSE, MountPoint |-> <<>>, IsUnlocked |-> FALSE]

----------------------------------------------------------------------------
\* Hardware attributes a scan reads off a partition.

\* getPartitions sets IsPartition for every partition it lists; a disk that
\* parseGeomDiskList lists has it false.
IsPartition(p) == p \in {"da0p1", "da1p1"}

\* detectFilesystem: "file -s" reports GELI.
IsEncrypted(p) == p = "da1p1"

\* Strings whose characters matter are sequences of characters, and a file path
\* is the sequence of its components under the root.

\* strings.ReplaceAll(s, old, new) for a one-character old.
ReplaceAll(s, old, new) == [i \in 1..Len(s) |-> IF s[i] = old THEN new ELSE s[i]]

\* Device.GetDisplayName: the label, else the first 8 characters of the UUID and
\* "...", else the name.
GetDisplayName(d) ==
    IF d.Label # <<>>
    THEN d.Label
    ELSE IF d.UUID # <<>>
         THEN SubSeq(d.UUID, 1, 8) \o <<".", ".", ".">>
         ELSE d.Name

\* filepath.Clean on the components of a rooted path: "" and "." are dropped, ".."
\* takes the component before it away (and is dropped at the root).
RECURSIVE Clean(_)
Clean(comps) ==
    IF comps = <<>>
    THEN <<>>
    ELSE LET front == Clean(SubSeq(comps, 1, Len(comps) - 1))
             c == comps[Len(comps)]
         IN  IF c = <<>> \/ c = <<".">>
             THEN front
             ELSE IF c = <<".", ".">>
                  THEN SubSeq(front, 1, Len(front) - 1)
                  ELSE Append(front, c)

\* filepath.Join(base, name) for a name without separator: the cleaned path.
Join(base, name) == Clean(Append(base, name))

\* Device.GetMountDirectory(base): "/" and " " of the display name become "_",
\* and the name is joined to base.
GetMountDirectory(d, base) ==
    Join(base, ReplaceAll(ReplaceAll(GetDisplayName(d), "/", "_"), " ", "_"))

\* config.MountBase, "/media".
MountBase == <<<<"m", "e", "d", "i", "a">>>>

\* The device at path p as GetMountDirectory sees it: the scans here report
\* neither label nor UUID, and the name (p, taken as one unit) has no character
\* that GetMountDirectory rewrites.
DeviceAt(p) == [Label |-> <<>>, UUID |-> <<>>, Name |-> <<p>>]

\* The mount directory of the device at path p.
MountDirectory(p) == GetMountDirectory(DeviceAt(p), MountBase)

\* config.GetDeviceConfig: the first entry that matches the device (the devices
\* here have neither label nor UUID, so the match is by device_path).
GetDeviceConfig(cfg, p) ==
    LET hits == { i \in 1..Len(cfg.Devices) :
                    cfg.Devices[i].DevicePath # "" /\ cfg.Devices[i].DevicePath = p }
    IN  IF hits = {}
        THEN NoDeviceConfig
        ELSE cfg.Devices[CHOOSE i \in hits : \A j \in hits : i <= j]

\* An automount policy that never ignores.
ShouldIgnoreDevice_Never(cfg, p) == FALSE

\* config.ShouldIgnoreDevice: the matching entry's ignore, false without one.
ShouldIgnoreDevice(cfg, p) ==
    LET devCfg == GetDeviceConfig(cfg, p)
    IN  IF devCfg # NoDeviceConfig THEN devCfg.Ignore ELSE FALSE

\* config.ShouldAutomountDevice: the matching entry's automount when it sets one,
\* else the global setting.
ShouldAutomountDevice(cfg, p) ==
    LET devCfg == GetDeviceConfig(cfg, p)
    IN  IF devCfg # NoDeviceConfig /\ devCfg.Automount # "nil"
        THEN devCfg.Automount = "true"
        ELSE cfg.Automount

\* checkMountStatus applied to a new record: the mount table decides IsMounted.
NewDevice(p, mtab) ==
    [Path |-> p,
     IsMounted |-> p \in mtab,
     MountPoint |-> IF p \in mtab THEN MountDirectory(p) ELSE <<>>,
     IsUnlocked |-> FALSE]

\* Manager.Scan: the list of the records of the attached partitions, in the order
\* the listing tools report them.
Scan(order, mtab) == [i \in 1..Len(order) |-> NewDevice(order[i], mtab)]

\* The scan orders of the attached partitions att.
Orders(att) ==
    { o \in PathOrders : Len(o) = Cardinality(att) /\ {o[i] : i \in 1..Len(o)} = att }

----------------------------------------------------------------------------
\* The record pool. A record enters it when a call may share it with d.mounted.

Refs(mnt, rc) == ({mnt[p] : p \in Paths} \cup {rc[t] : t \in Threads}) \ {0}

Live == Refs(mounted, rec)

\* Cells nobody references are cleared, so that they can be handed out again.
Collect(h, refs) == [i \in RecIds |-> IF i \in refs THEN h[i] ELSE NoRec]

\* The lowest id not in use.
NewId(live) == CHOOSE i \in RecIds \ live : \A j \in RecIds \ live : i <= j

CanAlloc(live) == RecIds \ live # {}

NoRecs == [p \in Paths |-> 0]

\* The process is running: main has neither died in Start nor returned from Stop
\* (its return ends the process, whatever the goroutines are doing).
Alive == mainpc \notin {"fatal", "stopped", "returned"}

\* No mount-all operation is running.
NoMountAll ==
    [front |-> "", devices |-> <<>>, i |-> 0, tried |-> {}, failed |-> {}, ret |-> <<>>]

----------------------------------------------------------------------------
\* The state before anything has run, on machine m with the devices att attached
\* and mtab mounted; a is the input of the function looked at on its own.
InitState(m, att, mtab, a) ==
    /\ config = m.cfg
    /\ parts = m.parts
    /\ present = att
    /\ osMounted = mtab
    /\ heap = [i \in RecIds |-> NoRec]
    /\ mounted = NoRecs
    /\ pc = [t \in Threads |-> IF t = "poll" THEN "unstarted" ELSE "idle"]
    /\ rec = [t \in Threads |-> 0]
    /\ ret = [t \in Threads |-> "none"]
    /\ known = {}
    /\ devices = <<>>
    /\ current = {}
    /\ tickAdded = {}
    /\ tickRemoved = {}
    /\ prevKnown = {}
    /\ stopChan = FALSE
    /\ wg = 0
    /\ mainpc = "init"
    /\ mountAll = NoMountAll
    /\ arg = a
    /\ result = <<>>

InitWith(mtab) ==
    \E m \in Scenarios, att \in SUBSET Paths :
        /\ att \subseteq m.parts
        /\ InitState(m, att, mtab, <<>>)

\* The daemon starts with nothing mounted.
Init == InitWith({})

\* A mount-all operation finds any of the attached devices mounted already.
InitMountAll == \E mtab \in SUBSET Paths : InitWith(mtab) /\ mtab \subseteq present

----------------------------------------------------------------------------
\* The environment: partitions are attached and detached. Detaching leaves the
\* mount table as it is (the stale mount stays until it is unmounted).

Plug(p) ==
    /\ Alive
    /\ p \in parts \ present
    /\ present' = present \cup {p}
    /\ UNCHANGED <<parts, osMounted, config, funVars, callVars, pollVars, mainVars>>

Unplug(p) ==
    /\ Alive
    /\ p \in present
    /\ present' = present \ {p}
    /\ UNCHANGED <<parts, osMounted, config, funVars, callVars, pollVars, mainVars>>

----------------------------------------------------------------------------
\* main and Daemon.Start / Daemon.Stop.

\* Start: the initial scan, then wg.Add(1) and "go d.monitorDevd()". main dies
\* (log.Fatalf) when the scan fails.
Start(scanOk) ==
    /\ mainpc = "init"
    /\ IF scanOk
       THEN /\ mainpc' = "running"
            /\ wg' = wg + 1
            /\ pc' = [pc EXCEPT !["poll"] = "select"]
       ELSE /\ mainpc' = "fatal"
            /\ UNCHANGED <<wg, pc>>
    /\ UNCHANGED <<envVars, heap, mounted, rec, ret, pollVars, stopChan, mountAll>>

\* Stop, line 61: close(d.stopChan); main is then in d.wg.Wait().
Stop_close ==
    /\ mainpc = "running"
    /\ stopChan' = TRUE
    /\ mainpc' = "stopping"
    /\ UNCHANGED <<envVars, callVars, pollVars, wg, mountAll>>

\* A Wait that returns at once, whatever the counter.
WaitDone_NoWait(n) == TRUE

\* d.wg.Wait() returns once the counter is zero.
WaitDone(n) == n = 0

\* Stop, line 65: Stop returns.
Stop_wait ==
    /\ mainpc = "stopping"
    /\ WaitDone(wg)
    /\ mainpc' = "stopped"
    /\ UNCHANGED <<envVars, callVars, pollVars, stopChan, wg, mountAll>>

----------------------------------------------------------------------------
\* dev.Path of the record r.
PathOfRec(r) == heap[r].Path

\* A step of thread t in or around a mountDevice / unmountDevice call: the thread
\* moves to where with the result res and the record r; h and m are the heap and
\* d.mounted the step leaves.
Step(t, where, res, r, h, m) ==
    /\ pc' = [pc EXCEPT ![t] = where]
    /\ ret' = [ret EXCEPT ![t] = res]
    /\ rec' = [rec EXCEPT ![t] = r]
    /\ mounted' = m
    /\ heap' = Collect(h, Refs(m, rec'))

\* mountDevice, lines 200-235, called by t on the record r of heap h: the
\* already-mounted check; for a locked GELI volume unlockDevice (lines 307-329),
\* which has no keyfile and so asks getPassword; else os.MkdirAll and the mount tool.
mountDevice(t, r, h, mkdirOk) ==
    LET d == h[r] IN
    IF d.IsMounted
    THEN Step(t, "m_ret", "err_already", r, h, mounted)
    ELSE IF IsEncrypted(d.Path) /\ ~d.IsUnlocked
         THEN IF ~config.GELIEnabled
              THEN Step(t, "m_ret", "err_unlock", r, h, mounted)
              ELSE IF config.PasswordCmd
                   THEN Step(t, "m_passcmd", "none", r, h, mounted)
                   ELSE Step(t, "m_stdin", "none", r, h, mounted)
         ELSE IF mkdirOk
              THEN Step(t, "m_tool", "none", r, h, mounted)
              ELSE Step(t, "m_ret", "err_mkdir", r, h, mounted)

\* unmountDevice, lines 268-275, called by t on the record r: the not-mounted
\* check, then "umount dev.MountPoint" is started.
unmountDevice(t, r) ==
    IF ~heap[r].IsMounted
    THEN Step(t, "u_ret", "err_notmounted", r, heap, mounted)
    ELSE Step(t, "u_tool", "none", r, heap, mounted)

----------------------------------------------------------------------------
\* pollDevices.

\* select, case <-d.stopChan: return; monitorDevd's deferred wg.Done() runs.
pollDevices_stop ==
    /\ Alive
    /\ pc["poll"] = "select"
    /\ stopChan
    /\ pc' = [pc EXCEPT !["poll"] = "exited"]
    /\ ret' = [ret EXCEPT !["poll"] = "none"]
    /\ wg' = wg - 1
    /\ UNCHANGED <<envVars, heap, mounted, rec, pollVars, stopChan, mainpc, mountAll>>

\* A failed scan that ends the poll loop.
AfterFailedScan_Returns(pcs) == [pcs EXCEPT !["poll"] = "exited"]

\* Lines 111-114: the positions after a failed scan, which is logged; "continue"
\* takes the loop to its select again.
AfterFailedScan(pcs) == pcs

\* A failed scan taken for a scan that lists nothing.
KnownAfterFailedScan_Forgets(kn) == {}

\* Lines 111-114: knownDevices after a failed scan; the loops over the scan's
\* list and over knownDevices are not run.
KnownAfterFailedScan(kn) == kn

\* select, case <-ticker.C: Scan. A failed scan is logged and the loop continues
\* with the next select; otherwise the two loops run over the scan's list.  The
\* poll thread's ret is the tick's err.
pollDevices_tick(scanOk, order) ==
    /\ Alive
    /\ pc["poll"] = "select"
    /\ IF scanOk
       THEN /\ order \in Orders(present)
            /\ devices' = Scan(order, osMounted)
            /\ current' = {}
            /\ tickAdded' = {}
            /\ tickRemoved' = {}
            /\ prevKnown' = known
            /\ pc' = [pc EXCEPT !["poll"] = "loop"]
            /\ ret' = [ret EXCEPT !["poll"] = "none"]
            /\ UNCHANGED known
       ELSE /\ order = <<>>
            /\ pc' = AfterFailedScan(pc)
            /\ ret' = [ret EXCEPT !["poll"] = "err_scan"]
            /\ known' = KnownAfterFailedScan(known)
            /\ UNCHANGED <<devices, current, tickAdded, tickRemoved, prevKnown>>
    /\ UNCHANGED <<envVars, heap, mounted, rec, mainVars>>

\* A first loop that forgets to mark the scanned path.
MarkCurrent_Forgets(cur, p) == cur

\* currentDevices after the first loop has seen the device at path p (line 120).
MarkCurrent(cur, p) == cur \cup {p}

\* The first loop, one device of the list: lines 119-127, with onDeviceAdded up to
\* its call of mountDevice (line 161), which shares the scan's record.
pollDevices_add(mkdirOk) ==
    /\ Alive
    /\ pc["poll"] = "loop"
    /\ devices # <<>>
    /\ LET dev == Head(devices)
           p == dev.Path
       IN
       /\ current' = MarkCurrent(current, p)
       /\ IF p \in known
          THEN /\ devices' = Tail(devices)
               /\ mkdirOk
               /\ UNCHANGED <<known, tickAdded, callVars>>
          ELSE /\ tickAdded' = tickAdded \cup {p}
               /\ IF /\ ~ShouldIgnoreDevice(config, p)
                     /\ IsPartition(p)
                     /\ ShouldAutomountDevice(config, p)
                  THEN /\ CanAlloc(Live)
                       /\ mountDevice("poll", NewId(Live),
                                      [heap EXCEPT ![NewId(Live)] = dev], mkdirOk)
                       /\ UNCHANGED <<known, devices>>
                  ELSE /\ known' = known \cup {p}
                       /\ devices' = Tail(devices)
                       /\ mkdirOk
                       /\ UNCHANGED callVars
    /\ UNCHANGED <<envVars, tickRemoved, prevKnown, mainVars>>

\* A loop that takes for known only what it has mounted.
MarkKnown_OnlyMounted(kn, p, res) == IF res = "ok" THEN kn \cup {p} ELSE kn

\* knownDevices after line 125, which follows onDeviceAdded whatever the result
\* res of its mount was.
MarkKnown(kn, p, res) == kn \cup {p}

\* Lines 161-168 and 125: mountDevice has returned to onDeviceAdded, which logs an
\* error; the path becomes known and the loop goes to the next device.
pollDevices_added ==
    /\ Alive
    /\ pc["poll"] = "m_ret"
    /\ known' = MarkKnown(known, Head(devices).Path, ret["poll"])
    /\ devices' = Tail(devices)
    /\ Step("poll", "loop", "none", 0, heap, mounted)
    /\ UNCHANGED <<envVars, current, tickAdded, tickRemoved, prevKnown, mainVars>>

\* The second loop, one known path that the scan did not list: lines 130-135, with
\* onDeviceRemoved up to its call of unmountDevice (line 182) on d.mounted[path].
pollDevices_remove(p) ==
    /\ Alive
    /\ pc["poll"] = "loop"
    /\ devices = <<>>
    /\ p \in known \ current
    /\ tickRemoved' = tickRemoved \cup {p}
    /\ IF mounted[p] # 0
       THEN /\ unmountDevice("poll", mounted[p])
            /\ UNCHANGED known
       ELSE /\ known' = known \ {p}
            /\ UNCHANGED callVars
    /\ UNCHANGED <<envVars, devices, current, tickAdded, prevKnown, mainVars>>

\* Lines 182-184 and 133: unmountDevice has returned to onDeviceRemoved, which logs
\* an error; the path is known no longer.
pollDevices_removed ==
    /\ Alive
    /\ pc["poll"] = "u_ret"
    /\ known' = known \ {heap[rec["poll"]].Path}
    /\ Step("poll", "loop", "none", 0, heap, mounted)
    /\ UNCHANGED <<envVars, devices, current, tickAdded, tickRemoved, prevKnown, mainVars>>

\* Both loops are done: back to the select. The tick's locals go out of scope.
pollDevices_next ==
    /\ Alive
    /\ pc["poll"] = "loop"
    /\ devices = <<>>
    /\ known \ current = {}
    /\ pc' = [pc EXCEPT !["poll"] = "select"]
    /\ current' = {}
    /\ tickAdded' = {}
    /\ tickRemoved' = {}
    /\ prevKnown' = {}
    /\ UNCHANGED <<envVars, heap, mounted, rec, ret, known, devices, mainVars>>

----------------------------------------------------------------------------
\* The rest of mountDevice and unlockDevice, for the thread t that is in the call.

\* getPassword, lines 353-358: the password command ends, with or without a password;
\* with one, "geli attach" is started.
getPassword_cmd(t, ok) ==
    /\ Alive
    /\ pc[t] = "m_passcmd"
    /\ IF ok
       THEN Step(t, "m_geli", "none", rec[t], heap, mounted)
       ELSE Step(t, "m_ret", "err_unlock", rec[t], heap, mounted)
    /\ UNCHANGED <<envVars, pollVars, mainVars>>

\* getPassword, lines 362-368: reader.ReadString returns when the terminal delivers
\* a line (or end of input, an error).
getPassword_stdin(t, ok) ==
    /\ Alive
    /\ pc[t] = "m_stdin"
    /\ IF ok
       THEN Step(t, "m_geli", "none", rec[t], heap, mounted)
       ELSE Step(t, "m_ret", "err_unlock", rec[t], heap, mounted)
    /\ UNCHANGED <<envVars, pollVars, mainVars>>

\* A mountDevice that goes on to the mount tool whatever "geli attach" returned.
unlockDevice_geli_GoesOn(t, ok, mkdirOk) ==
    /\ Alive
    /\ pc[t] = "m_geli"
    /\ mkdirOk
    /\ Step(t, "m_tool", "none", rec[t],
            [heap EXCEPT ![rec[t]].IsUnlocked = ok], mounted)
    /\ UNCHANGED <<envVars, pollVars, mainVars>>

\* unlockDevice, lines 331-336, and mountDevice, lines 212-235: "geli attach" ends;
\* on success dev.IsUnlocked = true, then os.MkdirAll and the mount tool is started.
unlockDevice_geli(t, ok, mkdirOk) ==
    /\ Alive
    /\ pc[t] = "m_geli"
    /\ LET r == rec[t] IN
       IF ok
       THEN /\ heap[r].Path \in present
            /\ IF mkdirOk
               THEN Step(t, "m_tool", "none", r,
                         [heap EXCEPT ![r].IsUnlocked = TRUE], mounted)
               ELSE Step(t, "m_ret", "err_mkdir", r,
                         [heap EXCEPT ![r].IsUnlocked = TRUE], mounted)
       ELSE /\ mkdirOk
            /\ Step(t, "m_ret", "err_unlock", r, heap, mounted)
    /\ UNCHANGED <<envVars, pollVars, mainVars>>

\* What the mount tool can print when it fails.
ToolOutputs == {"Device busy", "Operation not permitted"}

\* fmt.Errorf("mount failed: %w (output: %s)", err, string(output)), line 237.
MountFailed(out) == "mount failed: exit status 1 (output: " \o out \o ")"

\* A failed mount that marks the record mounted all the same.
mountDevice_failed_Marks(t, out) ==
    /\ Step(t, "m_ret", MountFailed(out), rec[t],
            [heap EXCEPT ![rec[t]].MountPoint = MountDirectory(heap[rec[t]].Path),
                         ![rec[t]].IsMounted = TRUE], mounted)
    /\ UNCHANGED osMounted

\* Lines 236-238: the mount tool exited non-zero with the output out; the error is
\* returned at once.
mountDevice_failed(t, out) ==
    /\ Step(t, "m_ret", MountFailed(out), rec[t], heap, mounted)
    /\ UNCHANGED osMounted

\* Lines 235-241: the mount tool ends. On success the record gets its mount point.
mountDevice_tool(t, ok) ==
    /\ Alive
    /\ pc[t] = "m_tool"
    /\ LET r == rec[t]
           p == heap[r].Path
       IN  IF ok
           THEN /\ p \in present
                /\ osMounted' = osMounted \cup {p}
                /\ Step(t, "m_book", "none", r,
                        [heap EXCEPT ![r].MountPoint = MountDirectory(p),
                                     ![r].IsMounted = TRUE], mounted)
           ELSE \E out \in ToolOutputs : mountDevice_failed(t, out)
    /\ UNCHANGED <<parts, present, config, funVars, pollVars, mainVars>>

\* Lines 243-263: d.mounted[dev.Path] = dev under d.mu, and mountDevice returns nil.
mountDevice_book(t) ==
    /\ Alive
    /\ pc[t] = "m_book"
    /\ Step(t, "m_ret", "ok", rec[t], heap,
            [mounted EXCEPT ![heap[rec[t]].Path] = rec[t]])
    /\ UNCHANGED <<envVars, pollVars, mainVars>>

----------------------------------------------------------------------------
\* The rest of unmountDevice.

\* A failed umount that drops the bookkeeping all the same.
unmountDevice_fail_Drops(t) ==
    /\ Step(t, "u_ret", "err_umount", rec[t],
            [heap EXCEPT ![rec[t]].MountPoint = <<>>, ![rec[t]].IsMounted = FALSE],
            [mounted EXCEPT ![heap[rec[t]].Path] = 0])
    /\ UNCHANGED osMounted

\* Lines 276-278: umount failed; the error is returned at once.
unmountDevice_fail(t) ==
    /\ Step(t, "u_ret", "err_umount", rec[t], heap, mounted)
    /\ UNCHANGED osMounted

\* Lines 280-282: umount succeeded; the record loses its mount point.
unmountDevice_clear(t) ==
    LET r == rec[t]
        p == heap[r].Path
    IN  /\ p \in osMounted
        /\ osMounted' = osMounted \ {p}
        /\ Step(t, "u_book", "none", r,
                [heap EXCEPT ![r].MountPoint = <<>>, ![r].IsMounted = FALSE], mounted)

\* Lines 275-282: the umount tool ends.
unmountDevice_tool(t, ok) ==
    /\ Alive
    /\ pc[t] = "u_tool"
    /\ IF ok THEN unmountDevice_clear(t) ELSE unmountDevice_fail(t)
    /\ UNCHANGED <<parts, present, config, funVars, pollVars, mainVars>>

\* A bookkeeping step that leaves the entry in d.mounted.
DeleteMounted_Keeps(m, p) == m

\* d.mounted after line 285, delete(d.mounted, dev.Path).
DeleteMounted(m, p) == [m EXCEPT ![p] = 0]

\* Lines 284-302: the entry is deleted under d.mu and unmountDevice returns nil.
unmountDevice_book(t) ==
    /\ Alive
    /\ pc[t] = "u_book"
    /\ Step(t, "u_ret", "ok", rec[t], heap, DeleteMounted(mounted, heap[rec[t]].Path))
    /\ UNCHANGED <<envVars, pollVars, mainVars>>

----------------------------------------------------------------------------
\* The tray. rebuildMenu scans and starts, for a partition of the scan, a handler
\* goroutine that has captured the scan's record: of the "Mount" item when the
\* record is not mounted, of the "Unmount" item when it is. The handlers call
\* Daemon.MountDevice / Daemon.UnmountDevice through main's callbacks.

\* rebuildMenu as it concerns handler t, which is waiting for a click: after a scan
\* that lists p it serves p's item; a failed scan leaves the menu alone.
rebuildMenu(t, scanOk, p) ==
    /\ Alive
    /\ config.TrayEnabled
    /\ pc[t] \in {"idle", "mount_item", "unmount_item"}
    /\ p \in parts
    /\ IF scanOk
       THEN LET id == NewId(Refs(mounted, [rec EXCEPT ![t] = 0])) IN
            IF p \in present /\ IsPartition(p)
            THEN /\ CanAlloc(Refs(mounted, [rec EXCEPT ![t] = 0]))
                 /\ Step(t, IF p \in osMounted THEN "unmount_item" ELSE "mount_item",
                         "none", id, [heap EXCEPT ![id] = NewDevice(p, osMounted)],
                         mounted)
            ELSE Step(t, "idle", "none", 0, heap, mounted)
       ELSE UNCHANGED callVars
    /\ UNCHANGED <<envVars, pollVars, mainVars>>

\* onMountDevice -> onMountFunc -> Daemon.MountDevice(dev) -> mountDevice(dev).
MountDevice(t, mkdirOk) ==
    /\ Alive
    /\ pc[t] = "mount_item"
    /\ mountDevice(t, rec[t], heap, mkdirOk)
    /\ UNCHANGED <<envVars, pollVars, mainVars>>

\* onUnmountDevice -> onUnmountFunc -> Daemon.UnmountDevice(dev) -> unmountDevice(dev).
UnmountDevice(t) ==
    /\ Alive
    /\ pc[t] = "unmount_item"
    /\ unmountDevice(t, rec[t])
    /\ UNCHANGED <<envVars, pollVars, mainVars>>

\* onMountDevice / onUnmountDevice after the callback: a notification, and the
\* handler waits for the next click on its item.
handleMenuItem_done(t) ==
    /\ Alive
    /\ pc[t] \in {"m_ret", "u_ret"}
    /\ Step(t, IF pc[t] = "m_ret" THEN "mount_item" ELSE "unmount_item", "none",
            rec[t], heap, mounted)
    /\ UNCHANGED <<envVars, pollVars, mainVars>>

----------------------------------------------------------------------------
----------------------------------------------------------------------------
\* The mount-all operations: Daemon.MountAll (daemon.go 69-84), Icon.onMountAll
\* (tray, 427-454) and pgmount -a (cmd/pgmount/main.go 36-57). The three have the
\* same loop; the first two call Daemon.mountDevice, pgmount its own mountDevice.

\* The scan. MountAll and pgmount end the process on a failed scan (log.Fatalf),
\* onMountAll logs it and returns.
MountAll_scan(front, scanOk, order) ==
    /\ mainpc = "init"
    /\ IF scanOk
       THEN /\ order \in Orders(present)
            /\ mainpc' = "mountall"
            /\ mountAll' = [front |-> front, devices |-> Scan(order, osMounted),
                            i |-> 1, tried |-> {}, failed |-> {}, ret |-> <<>>]
       ELSE /\ order = <<>>
            /\ mainpc' = IF front = "onMountAll" THEN "returned" ELSE "fatal"
            /\ mountAll' = [NoMountAll EXCEPT
                               !.front = front,
                               !.ret = IF front = "MountAll"
                                       THEN <<"failed to scan devices">>
                                       ELSE <<>>]
    /\ UNCHANGED <<envVars, callVars, pollVars, stopChan, wg>>

\* The loop's filter: dev.IsPartition && !dev.IsMounted (onMountAll adds
\* dev.IsRemovable, which every device of a scan has).
MountAllWants(dev) == IsPartition(dev.Path) /\ ~dev.IsMounted

\* pgmount's mountDevice (cmd/pgmount/main.go 119-165), called on the record r of
\* heap h: os.MkdirAll, then the mount tool; no unlock, no d.mounted.
pgmount_mountDevice(t, r, h, mkdirOk) ==
    IF mkdirOk
    THEN Step(t, "m_tool", "none", r, h, mounted)
    ELSE Step(t, "m_ret", "err_mkdir", r, h, mounted)

\* One device of the list: skipped, or handed to mountDevice.
MountAll_dev(mkdirOk) ==
    /\ mainpc = "mountall"
    /\ pc["mountall"] = "idle"
    /\ mountAll.i <= Len(mountAll.devices)
    /\ LET dev == mountAll.devices[mountAll.i] IN
       IF MountAllWants(dev)
       THEN /\ CanAlloc(Live)
            /\ mountAll' = [mountAll EXCEPT !.tried = @ \cup {dev.Path}]
            /\ IF mountAll.front = "pgmount"
               THEN pgmount_mountDevice("mountall", NewId(Live),
                                        [heap EXCEPT ![NewId(Live)] = dev], mkdirOk)
               ELSE mountDevice("mountall", NewId(Live),
                                [heap EXCEPT ![NewId(Live)] = dev], mkdirOk)
       ELSE /\ mkdirOk
            /\ mountAll' = [mountAll EXCEPT !.i = @ + 1]
            /\ UNCHANGED callVars
    /\ UNCHANGED <<envVars, pollVars, stopChan, wg, mainpc>>

\* pgmount's mountDevice after a successful mount: it returns nil (pgmount has no
\* mounted map).
pgmount_mounted ==
    /\ Alive
    /\ mountAll.front = "pgmount"
    /\ pc["mountall"] = "m_book"
    /\ Step("mountall", "m_ret", "ok", rec["mountall"], heap, mounted)
    /\ UNCHANGED <<envVars, pollVars, mainVars>>

\* Daemon.mountDevice's bookkeeping, for MountAll and onMountAll.
MountAll_book ==
    /\ mountAll.front # "pgmount"
    /\ mountDevice_book("mountall")

\* A loop that gives up at the first failed mount.
MountAll_continue_Aborts(ma, p, res) ==
    IF res = "ok"
    THEN [ma EXCEPT !.i = @ + 1]
    ELSE [ma EXCEPT !.i = Len(ma.devices) + 1, !.failed = @ \cup {p}]

\* The loop after mountDevice has returned res for the device at path p: an error
\* is logged, and the loop goes on with the next device.
MountAll_continue(ma, p, res) ==
    [ma EXCEPT !.i = @ + 1,
               !.failed = IF res = "ok" THEN @ ELSE @ \cup {p}]

\* mountDevice has returned to the loop.
MountAll_returned ==
    /\ mainpc = "mountall"
    /\ pc["mountall"] = "m_ret"
    /\ mountAll' = MountAll_continue(mountAll, PathOfRec(rec["mountall"]), ret["mountall"])
    /\ Step("mountall", "idle", "none", 0, heap, mounted)
    /\ UNCHANGED <<envVars, pollVars, stopChan, wg, mainpc>>

\* What the operation returns to its caller after the loop: Daemon.MountAll
\* returns nil (line 83); onMountAll and pgmount's main return nothing.
MountAll_result(ma) == IF ma.front = "MountAll" THEN <<"nil">> ELSE <<>>

\* The list is done: the operation returns.
MountAll_done ==
    /\ mainpc = "mountall"
    /\ pc["mountall"] = "idle"
    /\ mountAll.i > Len(mountAll.devices)
    /\ mainpc' = "returned"
    /\ mountAll' = [mountAll EXCEPT !.ret = MountAll_result(mountAll)]
    /\ UNCHANGED <<envVars, callVars, pollVars, stopChan, wg>>

NextMountAll ==
    \/ \E p \in Paths : Plug(p)
    \/ \E p \in Paths : Unplug(p)
    \/ \E f \in Fronts, ok \in BOOLEAN, order \in PathOrders : MountAll_scan(f, ok, order)
    \/ \E mk \in BOOLEAN : MountAll_dev(mk)
    \/ \E ok \in BOOLEAN : getPassword_cmd("mountall", ok)
    \/ \E ok \in BOOLEAN : getPassword_stdin("mountall", ok)
    \/ \E ok \in BOOLEAN, mk \in BOOLEAN : unlockDevice_geli("mountall", ok, mk)
    \/ \E ok \in BOOLEAN : mountDevice_tool("mountall", ok)
    \/ MountAll_book
    \/ pgmount_mounted
    \/ MountAll_returned
    \/ MountAll_done

\* A mount-all operation, run on its own.
MountAllSpec == InitMountAll /\ [][NextMountAll]_vars

----------------------------------------------------------------------------
Next ==
    \/ \E p \in Paths : Plug(p)
    \/ \E p \in Paths : Unplug(p)
    \/ \E ok \in BOOLEAN : Start(ok)
    \/ Stop_close
    \/ Stop_wait
    \/ pollDevices_stop
    \/ \E ok \in BOOLEAN, order \in PathOrders : pollDevices_tick(ok, order)
    \/ \E ok \in BOOLEAN : pollDevices_add(ok)
    \/ pollDevices_added
    \/ \E p \in Paths : pollDevices_remove(p)
    \/ pollDevices_removed
    \/ pollDevices_next
    \/ \E t \in Threads, ok \in BOOLEAN : getPassword_cmd(t, ok)
    \/ \E t \in Threads, ok \in BOOLEAN : getPassword_stdin(t, ok)
    \/ \E t \in Threads, ok \in BOOLEAN, mk \in BOOLEAN : unlockDevice_geli(t, ok, mk)
    \/ \E t \in Threads, ok \in BOOLEAN : mountDevice_tool(t, ok)
    \/ \E t \in Threads : mountDevice_book(t)
    \/ \E t \in Threads, ok \in BOOLEAN : unmountDevice_tool(t, ok)
    \/ \E t \in Threads : unmountDevice_book(t)
    \/ \E t \in TrayThreads, ok \in BOOLEAN, p \in Paths : rebuildMenu(t, ok, p)
    \/ \E t \in TrayThreads, mk \in BOOLEAN : MountDevice(t, mk)
    \/ \E t \in TrayThreads : UnmountDevice(t)
    \/ \E t \in TrayThreads : handleMenuItem_done(t)

Spec == Init /\ [][Next]_vars

----------------------------------------------------------------------------
\* Fairness. The poll goroutine keeps running and every external command it has
\* started ends; Go's select picks among its ready cases at random, so the closed
\* stopChan is picked eventually; main's wg.Wait returns once it can. Nothing is
\* assumed of the terminal (getPassword_stdin), of the hardware or of the user.
pollRun ==
    \/ \E ok \in BOOLEAN, order \in PathOrders : pollDevices_tick(ok, order)
    \/ \E ok \in BOOLEAN : pollDevices_add(ok)
    \/ pollDevices_added
    \/ \E p \in Paths : pollDevices_remove(p)
    \/ pollDevices_removed
    \/ pollDevices_next
    \/ \E ok \in BOOLEAN : getPassword_cmd("poll", ok)
    \/ \E ok \in BOOLEAN, mk \in BOOLEAN : unlockDevice_geli("poll", ok, mk)
    \/ \E ok \in BOOLEAN : mountDevice_tool("poll", ok)
    \/ mountDevice_book("poll")
    \/ \E ok \in BOOLEAN : unmountDevice_tool("poll", ok)
    \/ unmountDevice_book("poll")

Fairness ==
    /\ WF_vars(pollRun)
    /\ SF_vars(pollDevices_stop)
    /\ WF_vars(Stop_wait)

FairSpec == Spec /\ Fairness

----------------------------------------------------------------------------
\* pgmountd's command line: applyFlags (part_003, 761-789).

\* A boolean flag of the command line: not given, or given as true or as false.
FlagGiven == {"unset", "true", "false"}

\* The default of the flags -automount and -notify.
FlagDefault == TRUE

\* The flag's value, *automount or flag.Lookup(name).Value: the default when the
\* flag is not given.
FlagValue(f) == IF f = "unset" THEN FlagDefault ELSE f = "true"

\* The settings of the loaded configuration that applyFlags reads or writes.
LoadedConfigs ==
    { [Automount |-> a, NotificationsEnabled |-> n, TrayEnabled |-> y,
       TrayAutoHide |-> h, Verbose |-> FALSE, Quiet |-> FALSE, Devices |-> <<>>] :
        a \in BOOLEAN, n \in BOOLEAN, y \in BOOLEAN, h \in BOOLEAN }

CommandLines ==
    { [automount |-> a, noAutomount |-> na, notify |-> n, noNotify |-> nn,
       tray |-> t, autoTray |-> at, noTray |-> nt, verbose |-> v, quiet |-> q] :
        a \in FlagGiven, na \in BOOLEAN, n \in FlagGiven, nn \in BOOLEAN,
        t \in BOOLEAN, at \in BOOLEAN, nt \in BOOLEAN, v \in BOOLEAN, q \in BOOLEAN }

\* applyFlags, lines 762-766: cfg.Automount.
applyFlags_Automount(cfg, f) ==
    IF f.noAutomount
    THEN FALSE
    ELSE IF FlagValue(f.automount) = TRUE
         THEN FlagValue(f.automount)
         ELSE cfg.Automount

\* applyFlags, lines 768-772: cfg.Notifications.Enabled.
applyFlags_Notify(cfg, f) ==
    IF f.noNotify
    THEN FALSE
    ELSE IF FlagValue(f.notify) = TRUE
         THEN FlagValue(f.notify)
         ELSE cfg.NotificationsEnabled

\* applyFlags: the configuration it leaves.
applyFlags(cfg, f) ==
    [cfg EXCEPT
        !.Automount = applyFlags_Automount(cfg, f),
        !.NotificationsEnabled = applyFlags_Notify(cfg, f),
        !.TrayEnabled = IF f.noTray THEN FALSE
                        ELSE IF f.tray \/ f.autoTray THEN TRUE ELSE @,
        !.TrayAutoHide = IF f.noTray THEN @
                         ELSE IF f.tray THEN FALSE
                         ELSE IF f.autoTray THEN TRUE ELSE @,
        !.Verbose = IF f.verbose THEN TRUE ELSE @,
        !.Quiet = IF f.quiet THEN TRUE ELSE @]

\* A machine on which nothing runs.
NoMachine ==
    [cfg |-> [Automount |-> TRUE, GELIEnabled |-> TRUE, PasswordCmd |-> FALSE,
              TrayEnabled |-> FALSE, Devices |-> <<>>],
     parts |-> {}]

InitFlags ==
    \E c \in LoadedConfigs, f \in CommandLines :
        InitState(NoMachine, {}, {}, [cfg |-> c, flags |-> f])

\* main, line 622: applyFlags(cfg).
main_applyFlags ==
    /\ result = <<>>
    /\ result' = <<applyFlags(arg.cfg, arg.flags)>>
    /\ UNCHANGED <<parts, present, osMounted, config, arg,
                   callVars, pollVars, mainVars>>

FlagsSpec == InitFlags /\ [][main_applyFlags]_vars

----------------------------------------------------------------------------
\* Device.GetMountDirectory on its own.

\* The longest label looked at.
MaxLabel == 3

\* The characters of the labels: a letter, the separator, a space, a dot and two
\* shell metacharacters.
LabelChars == {"a", "/", " ", ".", ";", "$"}

Labels == UNION { [1..n -> LabelChars] : n \in 0..MaxLabel }

\* A volume has no UUID, or one such as msdosfs reports.
UUIDs == {<<>>, <<"1", "2", "3", "4", "-", "A", "B", "C", "D">>}

InitMountDirectory ==
    \E l \in Labels, u \in UUIDs :
        InitState(NoMachine, {}, {}, [Label |-> l, UUID |-> u, Name |-> <<"d", "a", "0">>])

\* mountDevice, line 212: dev.GetMountDirectory(d.config.MountBase).
mountDevice_GetMountDirectory ==
    /\ result = <<>>
    /\ result' = <<GetMountDirectory(arg, MountBase)>>
    /\ UNCHANGED <<parts, present, osMounted, config, arg,
                   callVars, pollVars, mainVars>>

MountDirectorySpec == InitMountDirectory /\ [][mountDevice_GetMountDirectory]_vars

----------------------------------------------------------------------------
\* Daemon.executeEventHook on its own (daemon.go 372-389). A hook command is a
\* sequence of characters in which a placeholder ("{label}") counts as one.

\* The longest label looked at.
MaxHookLabel == 2

\* The characters of the attributes: a letter, a space, the shell's command
\* separator, and the text of a placeholder.
HookChars == {"a", " ", ";", "{uuid}"}

\* The labels: not empty.
HookLabels == UNION { [1..n -> HookChars] : n \in 1..MaxHookLabel }

HookUUIDs == {<<"a">>, <<"a", ";", "a">>}

\* The devices a hook runs for; they differ in label and UUID.
HookDevices ==
    { [Path |-> <<"d">>, Label |-> l, UUID |-> u, MountPoint |-> <<"m">>] :
        l \in HookLabels, u \in HookUUIDs }

\* config.EventHooks[event]: the configured commands, "a {label}" and
\* "a {device} {uuid};a {mount_point}".
EventHooks ==
    { <<"a", " ", "{label}">>,
      <<"a", " ", "{device}", " ", "{uuid}", ";", "a", " ", "{mount_point}">> }

\* strings.ReplaceAll(s, old, new) for a placeholder old and a string new.
RECURSIVE ReplaceAllWith(_, _, _)
ReplaceAllWith(s, old, new) ==
    IF s = <<>>
    THEN <<>>
    ELSE (IF Head(s) = old THEN new ELSE <<Head(s)>>) \o ReplaceAllWith(Tail(s), old, new)

\* executeEventHook, lines 375-378: the command after the four replacements.
HookCommand(hookCmd, dev) ==
    LET c1 == ReplaceAllWith(hookCmd, "{device}", dev.Path)
        c2 == ReplaceAllWith(c1, "{label}", dev.Label)
        c3 == ReplaceAllWith(c2, "{uuid}", dev.UUID)
    IN  ReplaceAllWith(c3, "{mount_point}", dev.MountPoint)

\* s cut at every sep.
RECURSIVE Split(_, _)
Split(s, sep) ==
    IF s = <<>>
    THEN << <<>> >>
    ELSE LET rest == Split(Tail(s), sep) IN
         IF Head(s) = sep
         THEN << <<>> >> \o rest
         ELSE << <<Head(s)>> \o Head(rest) >> \o Tail(rest)

\* What "sh -c cmd" runs (line 383): the commands of cmd, which ";" separates,
\* each the list of its words, which spaces separate.
sh(cmd) ==
    LET cs == Split(cmd, ";")
    IN  [i \in 1..Len(cs) |-> SelectSeq(Split(cs[i], " "), LAMBDA w : w # <<>>)]

InitHook ==
    \E h \in EventHooks, d1 \in HookDevices, d2 \in HookDevices :
        InitState(NoMachine, {}, {}, [hook |-> h, dev1 |-> d1, dev2 |-> d2])

\* executeEventHook for the first device and for the second.
executeEventHook ==
    /\ result = <<>>
    /\ result' = << sh(HookCommand(arg.hook, arg.dev1)),
                    sh(HookCommand(arg.hook, arg.dev2)) >>
    /\ UNCHANGED <<parts, present, osMounted, config, arg,
                   callVars, pollVars, mainVars>>

HookSpec == InitHook /\ [][executeEventHook]_vars

\* The structure of what the shell runs: the number of words of each command.
Structure(run) == [i \in 1..Len(run) |-> Len(run[i])]

----------------------------------------------------------------------------
\* The mount tool's argument list, as a function of the configuration, the
\* device and (in pgmount) the command line.  An argument is a string, a
\* sequence of units; an option such as "ro" is one unit and "," is one unit.

\* The filesystem types detectFilesystem reports: none, "auto", and two types.
FSTypes == {<<>>, <<"auto">>, <<"ufs">>, <<"msdosfs">>}

\* The options of the device_config entry for da0p1, when there is an entry.
DeviceOptions == {<<>>, <<<<"ro">>>>, <<<<"ro">>, <<"noexec">>>>}

\* config.MountOptions.Default: the option lists by filesystem type.
DefaultOptions ==
    { <<>>,
      [t \in {<<"ufs">>} |-> <<<<"rw">>>>],
      [t \in {<<"ufs">>, <<"msdosfs">>} |->
          IF t = <<"ufs">> THEN <<>> ELSE <<<<"rw">>, <<"sync">>>>] }

\* The configurations of a mount: with or without an entry for da0p1.
MountConfigs ==
    { [Devices |-> d, Default |-> m] :
        d \in {<<>>} \cup { <<[DevicePath |-> "da0p1", Options |-> o]>> :
                              o \in DeviceOptions },
        m \in DefaultOptions }

\* The values of pgmount's -o and -t flags ("" when the flag is not given).
OptionFlags == {<<>>, <<"nosuid">>, <<"nosuid", ",", "ro">>, <<",">>}
TypeFlags == {<<>>, <<"auto">>, <<"ext2fs">>}

\* config.GetMountOptions: the options of the device's entry when it has some,
\* else the default list of the filesystem type, else none.
GetMountOptions(cfg, fstype, p) ==
    LET devCfg == GetDeviceConfig(cfg, p)
    IN  IF devCfg.DevicePath # "" /\ Len(devCfg.Options) > 0
        THEN devCfg.Options
        ELSE IF fstype \in DOMAIN cfg.Default
             THEN cfg.Default[fstype]
             ELSE <<>>

\* strings.Join(elems, sep).
RECURSIVE strings_Join(_, _)
strings_Join(elems, sep) ==
    IF elems = <<>>
    THEN <<>>
    ELSE IF Len(elems) = 1
         THEN Head(elems)
         ELSE Head(elems) \o <<sep>> \o strings_Join(Tail(elems), sep)

\* The string of a rooted path given by its components.
RECURSIVE PathString(_)
PathString(comps) ==
    IF comps = <<>>
    THEN <<>>
    ELSE <<"/">> \o Head(comps) \o PathString(Tail(comps))

\* The mutant of MountArgs: the type goes to the tool whenever it is not empty.
MountArgs_AutoPassed(opts, fs, path, mountPoint) ==
    LET a1 == IF Len(opts) > 0
              THEN <<<<"-o">>, strings_Join(opts, ",")>>
              ELSE <<>>
        a2 == IF fs # <<>>
              THEN a1 \o <<<<"-t">>, fs>>
              ELSE a1
    IN  a2 \o <<path, mountPoint>>

\* The argument list both mountDevice functions build (daemon.go 222-230,
\* cmd/pgmount/main.go 144-151): args starts empty and is appended to.
MountArgs(opts, fs, path, mountPoint) ==
    LET a1 == IF Len(opts) > 0
              THEN <<<<"-o">>, strings_Join(opts, ",")>>
              ELSE <<>>
        a2 == IF fs # <<>> /\ fs # <<"auto">>
              THEN a1 \o <<<<"-t">>, fs>>
              ELSE a1
    IN  a2 \o <<path, mountPoint>>

\* Daemon.mountDevice, lines 212-230: the arguments of the daemon's mount.
daemon_MountArgs(cfg, dev) ==
    MountArgs(GetMountOptions(cfg, dev.FSType, dev.Path), dev.FSType,
              <<dev.Path>>, PathString(MountDirectory(dev.Path)))

\* pgmount's mountDevice, lines 119-151: the -o value, cut at the commas,
\* replaces the configured options, and the -t value the detected type.
pgmount_MountArgs(cfg, dev, options, fsType) ==
    LET opts == IF options # <<>>
                THEN Split(options, ",")
                ELSE GetMountOptions(cfg, dev.FSType, dev.Path)
        fs == IF fsType # <<>> THEN fsType ELSE dev.FSType
    IN  MountArgs(opts, fs, <<dev.Path>>, PathString(MountDirectory(dev.Path)))

\* A mount by the daemon (which has no -o and -t flags) or by pgmount.
InitMountArgs ==
    \E c \in MountConfigs, t \in FSTypes, f \in {"daemon", "pgmount"},
       o \in OptionFlags, y \in TypeFlags :
        /\ f = "daemon" => (o = <<>> /\ y = <<>>)
        /\ InitState(NoMachine, {}, {},
                     [cfg |-> c, dev |-> [Path |-> "da0p1", FSType |-> t],
                      front |-> f, options |-> o, fsType |-> y])

\* The argument list is built.
mountDevice_args ==
    /\ result = <<>>
    /\ result' = << IF arg.front = "daemon"
                    THEN daemon_MountArgs(arg.cfg, arg.dev)
                    ELSE pgmount_MountArgs(arg.cfg, arg.dev, arg.options, arg.fsType) >>
    /\ UNCHANGED <<parts, present, osMounted, config, arg,
                   callVars, pollVars, mainVars>>

MountArgsSpec == InitMountArgs /\ [][mountDevice_args]_vars

----------------------------------------------------------------------------
\* The way of a passphrase through the unlock of an encrypted device: what is
\* logged, what is returned as an error, what the unlock tool reads.  A text is
\* a sequence of units; a fixed piece of a message is one unit, and the
\* characters of a passphrase are the units "p" and "q".

PassphraseChars == {"p", "q"}

\* What the password command prints, or what is typed at the prompt: a
\* passphrase with white space around it and the end of the line.
PassphraseLines == {<<"p", "\n">>, <<" ", "p", "q", " ", "\n">>, <<"q", "p", "\n">>}

\* What geli attach prints when it fails.
GeliOutputs == {<<"Wrong key">>, <<"Cannot read metadata">>}

\* strings.TrimSpace.
RECURSIVE TrimSpace(_)
TrimSpace(s) ==
    IF s = <<>>
    THEN s
    ELSE IF Head(s) \in {" ", "\n"}
         THEN TrimSpace(Tail(s))
         ELSE IF s[Len(s)] \in {" ", "\n"}
              THEN TrimSpace(SubSeq(s, 1, Len(s) - 1))
              ELSE s

\* The mutant of getPassword_result: the error carries what was read.
getPassword_result_Tells(output, ok, failure) ==
    IF ~ok
    THEN [password |-> <<>>, err |-> <<failure, ": ">> \o output]
    ELSE [password |-> TrimSpace(output), err |-> <<>>]

\* getPassword, lines 354-358 and 364-368: what was read is dropped and the error
\* of the read returned when the read failed; else what was read, trimmed.
getPassword_result(output, ok, failure) ==
    IF ~ok
    THEN [password |-> <<>>, err |-> <<failure>>]
    ELSE [password |-> TrimSpace(output), err |-> <<>>]

\* getPassword: the password command's output (its error is its exit status),
\* or a line of the standard input (its error is the end of the input).
getPassword(cfg, output, ok) ==
    IF cfg.PasswordCmd
    THEN getPassword_result(output, ok, "exit status 1")
    ELSE getPassword_result(output, ok, "EOF")

\* An unlock of da1p1: with or without password command, reading one of the
\* passphrase lines, the read and the attach succeeding or not.
InitUnlock ==
    \E g \in BOOLEAN, c \in BOOLEAN, l \in PassphraseLines, r \in BOOLEAN,
       a \in BOOLEAN, o \in GeliOutputs :
        InitState(NoMachine, {}, {},
                  [cfg |-> [GELIEnabled |-> g, PasswordCmd |-> c],
                   path |-> "da1p1", line |-> l, readOk |-> r,
                   attachOk |-> a, output |-> o])

\* The state of the unlock: the position, the log lines written, the error
\* on its way to the caller, the passphrase held, what geli attach has read.
Unlocking(at, l, e, pw, in) ==
    <<[pc |-> at, log |-> l, err |-> e, password |-> pw, stdin |-> in]>>

\* mountDevice calls unlockDevice (205-206), which refuses when GELI support is
\* disabled (307-309) and else logs the unlock (311).
unlockDevice_begin ==
    /\ result = <<>>
    /\ result' = IF ~arg.cfg.GELIEnabled
                 THEN Unlocking("return", <<>>, <<"GELI support is disabled">>,
                                <<>>, <<>>)
                 ELSE Unlocking("getPassword",
                                << <<"Unlocking encrypted device ", arg.path>> >>,
                                <<>>, <<>>, <<>>)
    /\ UNCHANGED <<parts, present, osMounted, config, arg,
                   callVars, pollVars, mainVars>>

\* unlockDevice, lines 322-325: the passphrase is got, or the unlock fails.
unlockDevice_getPassword ==
    /\ result # <<>>
    /\ result[1].pc = "getPassword"
    /\ LET got == getPassword(arg.cfg, arg.line, arg.readOk)
           st == result[1]
       IN  result' = IF got.err # <<>>
                     THEN Unlocking("return", st.log,
                                    <<"failed to get password: ">> \o got.err,
                                    <<>>, <<>>)
                     ELSE Unlocking("attach", st.log, <<>>, got.password, <<>>)
    /\ UNCHANGED <<parts, present, osMounted, config, arg,
                   callVars, pollVars, mainVars>>

\* unlockDevice, lines 327-339: geli attach reads the passphrase and a newline
\* from its standard input; its failure is returned with its output, its
\* success logged.
unlockDevice_attach ==
    /\ result # <<>>
    /\ result[1].pc = "attach"
    /\ LET st == result[1]
           in == st.password \o <<"\n">>
       IN  result' = IF ~arg.attachOk
                     THEN Unlocking("return", st.log,
                                    <<"geli attach failed: ", "exit status 1",
                                      " (output: ">> \o arg.output \o <<")">>,
                                    <<>>, in)
                     ELSE Unlocking("return",
                                    Append(st.log, <<"Successfully unlocked ", arg.path>>),
                                    <<>>, <<>>, in)
    /\ UNCHANGED <<parts, present, osMounted, config, arg,
                   callVars, pollVars, mainVars>>

\* mountDevice returns the failure of the unlock (206-208) and onDeviceAdded
\* logs it (161-162); after an unlock the mount goes on.
mountDevice_unlocked ==
    /\ result # <<>>
    /\ result[1].pc = "return"
    /\ LET st == result[1]
           e == IF st.err # <<>>
                THEN <<"failed to unlock device: ">> \o st.err
                ELSE <<>>
       IN  result' = Unlocking("done",
                               IF e # <<>>
                               THEN Append(st.log,
                                           <<"Failed to automount ", arg.path, ": ">> \o e)
                               ELSE st.log,
                               e, <<>>, st.stdin)
    /\ UNCHANGED <<parts, present, osMounted, config, arg,
                   callVars, pollVars, mainVars>>

NextUnlock ==
    \/ unlockDevice_begin
    \/ unlockDevice_getPassword
    \/ unlockDevice_attach
    \/ mountDevice_unlocked

UnlockSpec == InitUnlock /\ [][NextUnlock]_vars

\* The text holds a character of a passphrase.
Tells(text) == \E i \in 1..Len(text) : text[i] \in PassphraseChars

----------------------------------------------------------------------------
\* Manager.Scan with its tools: which of them are run, and what the scan
\* returns when some of them fail.

\* The removable disks, in the order the listings give them, and the
\* partitions of each.
Disks == <<"da0", "da1", "da2">>

PartitionsOf(disk) ==
    IF disk = "da0" THEN <<"da0p1">> ELSE IF disk = "da1" THEN <<"da1p1">> ELSE <<>>

\* The platforms Scan knows (runtime.GOOS).
Platforms == {"freebsd", "linux"}

\* The entry of a disk and of a partition in the list.
DiskEntry(name) == [Name |-> name, IsPartition |-> FALSE]
PartitionEntry(name) == [Name |-> name, IsPartition |-> TRUE]

\* The entries of the partitions of a disk.
PartitionEntries(disk) ==
    [i \in 1..Len(PartitionsOf(disk)) |-> PartitionEntry(PartitionsOf(disk)[i])]

\* getPartitions, lines 482-491 and 530: when gpart fails, the empty list and no
\* error; else the partitions gpart shows.
getPartitions(disk, gpartOk) ==
    IF ~gpartOk
    THEN [partitions |-> <<>>, err |-> "nil"]
    ELSE [partitions |-> PartitionEntries(disk), err |-> "nil"]

\* scanFreeBSD, lines 84-98: every disk of the listing (all are removable: their
\* names start with "da") and, when getPartitions returned no error, its
\* partitions.
RECURSIVE scanFreeBSD_disks(_, _, _)
scanFreeBSD_disks(list, att, gpartOk) ==
    IF list = <<>>
    THEN <<>>
    ELSE LET disk == Head(list)
             got == getPartitions(disk, gpartOk)
             own == IF disk \in att
                    THEN <<DiskEntry(disk)>> \o
                         (IF got.err = "nil" THEN got.partitions ELSE <<>>)
                    ELSE <<>>
         IN  own \o scanFreeBSD_disks(Tail(list), att, gpartOk)

\* scanFreeBSD: the failure of "geom disk list" is returned (lines 75-79).
scanFreeBSD(att, tools) ==
    IF ~tools.geom
    THEN [devices |-> <<>>, err |-> "failed to list disks"]
    ELSE [devices |-> scanFreeBSD_disks(Disks, att, tools.gpart), err |-> "nil"]

\* The attached disks of the list, each followed by its partitions.
RECURSIVE WithPartitions(_, _)
WithPartitions(list, att) ==
    IF list = <<>>
    THEN <<>>
    ELSE (IF Head(list) \in att
          THEN <<DiskEntry(Head(list))>> \o PartitionEntries(Head(list))
          ELSE <<>>) \o WithPartitions(Tail(list), att)

\* scanLinuxFallback: the removable entries of /sys/block and their partitions,
\* or the failure to read /sys/block.
scanLinuxFallback(att, tools) ==
    IF ~tools.sysBlock
    THEN [devices |-> <<>>, err |-> "failed to read /sys/block"]
    ELSE [devices |-> WithPartitions(Disks, att), err |-> "nil"]

\* scanLinux: the removable devices lsblk lists, or, when lsblk fails, what
\* scanLinuxFallback returns.
scanLinux(att, tools) ==
    IF ~tools.lsblk
    THEN scanLinuxFallback(att, tools)
    ELSE [devices |-> WithPartitions(Disks, att), err |-> "nil"]

\* Manager.Scan, lines 44-68.
Manager_Scan(goos, att, tools) ==
    LET got == IF goos = "freebsd" THEN scanFreeBSD(att, tools) ELSE scanLinux(att, tools)
    IN  IF got.err # "nil"
        THEN [devices |-> <<>>, err |-> got.err]
        ELSE got

\* A scan on a platform with some disks attached, each tool of the platform
\* working or not.
InitScan ==
    \E g \in Platforms, att \in SUBSET {"da0", "da1", "da2"},
       t \in [geom : BOOLEAN, gpart : BOOLEAN, lsblk : BOOLEAN, sysBlock : BOOLEAN] :
        /\ g = "freebsd" => (t.lsblk /\ t.sysBlock)
        /\ g = "linux" => (t.geom /\ t.gpart)
        /\ InitState(NoMachine, {}, {}, [goos |-> g, attached |-> att, tools |-> t])

\* The scan runs.
Manager_Scan_run ==
    /\ result = <<>>
    /\ result' = <<Manager_Scan(arg.goos, arg.attached, arg.tools)>>
    /\ UNCHANGED <<parts, present, osMounted, config, arg,
                   callVars, pollVars, mainVars>>

ScanSpec == InitScan /\ [][Manager_Scan_run]_vars

----------------------------------------------------------------------------
\* The Manager's device map under the scans of the daemon and of the tray, which
\* holds the daemon's Manager (part_003:658).  The map has no lock of its own;
\* the tray's menuMutex orders the tray's scans among themselves and is not taken
\* by the daemon.

\* The threads that scan: the daemon's (Start's scan, then the poll loop's) and
\* the tray's.
ScanThreads == {"poll"} \cup TrayThreads

\* The Manager: the keys of its map, what each scan has yet to store, and
\* whether the runtime has stopped the process for a concurrent map write.
ManagerState(keys, todo, fatal) == <<[devices |-> keys, todo |-> todo, fatal |-> fatal]>>

\* device.NewManager: the empty map.
NewManager ==
    /\ result = <<>>
    /\ result' = ManagerState({}, [t \in ScanThreads |-> <<>>], FALSE)
    /\ UNCHANGED <<parts, present, osMounted, config, arg,
                   callVars, pollVars, mainVars>>

\* Manager.Scan, lines 45-59: the tools run and give the list, or fail.  The
\* daemon's first scan is Start's, before the poll loop runs.
Manager_Scan_list(t, scanOk, order) ==
    /\ result # <<>>
    /\ ~result[1].fatal
    /\ pc[t] \in {"unstarted", "idle"}
    /\ order \in Orders(present)
    /\ IF scanOk /\ order # <<>>
       THEN /\ pc' = [pc EXCEPT ![t] = "Scan_range"]
            /\ result' = ManagerState(result[1].devices,
                                      [result[1].todo EXCEPT ![t] = order], FALSE)
       ELSE /\ pc' = [pc EXCEPT ![t] = "idle"]
            /\ UNCHANGED result
    /\ UNCHANGED <<parts, present, osMounted, config, arg,
                   heap, mounted, rec, ret, pollVars, mainVars>>

\* Manager.Scan, line 63: the next device of the list, or the return.
Manager_Scan_range(t) ==
    /\ result # <<>>
    /\ ~result[1].fatal
    /\ pc[t] = "Scan_range"
    /\ pc' = [pc EXCEPT ![t] = IF result[1].todo[t] = <<>> THEN "idle" ELSE "Scan_assign"]
    /\ UNCHANGED <<parts, present, osMounted, config, funVars,
                   heap, mounted, rec, ret, pollVars, mainVars>>

\* Manager.Scan, line 64: the assignment to the map ends.  When another thread is
\* inside an assignment to the map too, the two are a data race: the entry is
\* stored, or it is lost, or the runtime ends the process ("concurrent map
\* writes").
Manager_Scan_assign(t, outcome) ==
    /\ result # <<>>
    /\ ~result[1].fatal
    /\ pc[t] = "Scan_assign"
    /\ LET st == result[1]
           raced == \E u \in ScanThreads \ {t} : pc[u] = "Scan_assign"
           rest == [st.todo EXCEPT ![t] = Tail(@)]
       IN  /\ ~raced => outcome = "stored"
           /\ result' =
                IF outcome = "stored"
                THEN ManagerState(st.devices \cup {Head(st.todo[t])}, rest, FALSE)
                ELSE IF outcome = "lost"
                     THEN ManagerState(st.devices, rest, FALSE)
                     ELSE ManagerState(st.devices, st.todo, TRUE)
    /\ pc' = [pc EXCEPT ![t] = "Scan_range"]
    /\ UNCHANGED <<parts, present, osMounted, config, arg,
                   heap, mounted, rec, ret, pollVars, mainVars>>

InitManager ==
    \E att \in SUBSET Paths :
        /\ Orders(att) # {}
        /\ InitState(NoMachine, att, {}, <<>>)

NextManager ==
    \/ NewManager
    \/ \E t \in ScanThreads, scanOk \in BOOLEAN, order \in PathOrders :
          Manager_Scan_list(t, scanOk, order)
    \/ \E t \in ScanThreads : Manager_Scan_range(t)
    \/ \E t \in ScanThreads, outcome \in {"stored", "lost", "fatal"} :
          Manager_Scan_assign(t, outcome)

ManagerSpec == InitManager /\ [][NextManager]_vars

----------------------------------------------------------------------------
\* The two readers of the mount table.  A line is a sequence of units: a
\* character, or a piece of text that no reader cuts (" on ", " (", the
\* directory of the device nodes, a mount point).

\* The device paths /dev/da0p1, /dev/da0p10 and /dev/da1p1.
MountedPaths == {<<"/dev/da0p", "1">>, <<"/dev/da0p", "1", "0">>, <<"/dev/da1p", "1">>}

\* The paths a scan asks about.
QueriedPaths == {<<"/dev/da0p", "1">>, <<"/dev/da0p", "1", "0">>}

MountPoints == {<<"/media/A">>, <<"/media/B">>}

\* The longest mount table.
MaxMounts == 2

\* The mount tables: the mounted devices, each at its mount point, line by line.
MountTables ==
    UNION { [1..n -> [device : MountedPaths, mountPoint : MountPoints]] : n \in 0..MaxMounts }

\* The line of an entry in /etc/mtab and in the output of mount.
MtabLine(e) == e.device \o <<" ">> \o e.mountPoint \o <<" ", "ufs", " ", "rw", " ", "0", " ", "0">>
MountLine(e) == e.device \o <<" on ">> \o e.mountPoint \o <<" (">> \o <<"ufs,", " ", "local)">>

\* strings.HasPrefix and strings.Contains.
HasPrefix(s, prefix) == Len(s) >= Len(prefix) /\ SubSeq(s, 1, Len(prefix)) = prefix
Contains(s, sub) ==
    \E i \in 0..(Len(s) - Len(sub)) : SubSeq(s, i + 1, i + Len(sub)) = sub

\* strings.Fields: the pieces between the spaces.
Fields(s) == SelectSeq(Split(s, " "), LAMBDA w : w # <<>>)

\* What a reader leaves in the device: its mount state.
NotMounted == [IsMounted |-> FALSE, MountPoint |-> <<>>]

\* checkMountStatus, lines 625-634: every line that starts with the path and a
\* space gives the device its second field.
RECURSIVE checkMountStatus(_, _, _)
checkMountStatus(dev, path, lines) ==
    IF lines = <<>>
    THEN dev
    ELSE LET line == Head(lines)
             fields == Fields(line)
             next == IF HasPrefix(line, path \o <<" ">>) /\ Len(fields) >= 2
                     THEN [IsMounted |-> TRUE, MountPoint |-> fields[2]]
                     ELSE dev
         IN  checkMountStatus(next, path, Tail(lines))

\* parseMountOutput, lines 639-653: every line that contains the path gives the
\* device what stands between " on " and " (", trimmed.
RECURSIVE parseMountOutput(_, _, _)
parseMountOutput(dev, path, lines) ==
    IF lines = <<>>
    THEN dev
    ELSE LET line == Head(lines)
             ps == Split(line, " on ")
             next == IF Contains(line, path) /\ Len(ps) >= 2
                     THEN [IsMounted |-> TRUE,
                           MountPoint |-> TrimSpace(Split(ps[2], " (")[1])]
                     ELSE dev
         IN  parseMountOutput(next, path, Tail(lines))

\* A device path and a mount table.
InitMountStatus ==
    \E q \in QueriedPaths, tb \in MountTables :
        InitState(NoMachine, {}, {}, [path |-> q, table |-> tb])

\* The table is read in each of its two forms, for a device not yet marked.
checkMountStatus_both ==
    /\ result = <<>>
    /\ result' =
         << [file |-> checkMountStatus(NotMounted, arg.path,
                         [i \in 1..Len(arg.table) |-> MtabLine(arg.table[i])]),
             command |-> parseMountOutput(NotMounted, arg.path,
                         [i \in 1..Len(arg.table) |-> MountLine(arg.table[i])])] >>
    /\ UNCHANGED <<parts, present, osMounted, config, arg,
                   callVars, pollVars, mainVars>>

MountStatusSpec == InitMountStatus /\ [][checkMountStatus_both]_vars

----------------------------------------------------------------------------
\* parseLsblkJSON on the output of lsblk for one device.  A line is a sequence
\* of units: a punctuation character (the double quote is the unit "'"), a
\* space, or a word (a key, a value, null).

\* The optional fields of an entry, and their values: the field is absent, is
\* null, or is a string.
OptionalFields == {"mountpoint", "fstype", "label", "uuid"}

FieldValues(k) ==
    {"absent", "null"} \cup
    (IF k = "mountpoint" THEN {"/media/USB"}
     ELSE IF k = "fstype" THEN {"vfat"}
     ELSE IF k = "label" THEN {"USB"}
     ELSE {"1234-ABCD"})

\* The entries: the name sdb1, a type, the rm flag and the optional fields.
LsblkEntries ==
    { [k \in {"name", "type", "rm"} \cup OptionalFields |->
          IF k = "name" THEN "sdb1"
          ELSE IF k = "type" THEN t
          ELSE IF k = "rm" THEN r
          ELSE o[k]] :
        t \in {"part", "disk"}, r \in {"1", "0"},
        o \in { f \in [OptionalFields -> {"absent", "null", "/media/USB", "vfat",
                                          "USB", "1234-ABCD"}] :
                  \A k \in OptionalFields : f[k] \in FieldValues(k) } }

\* The orders of the fields: lsblk's for the -o list of scanLinux, and two
\* others; the name comes first.
FieldOrders ==
    { <<"name", "type", "mountpoint", "fstype", "label", "uuid", "rm">>,
      <<"name", "rm", "uuid", "label", "fstype", "mountpoint", "type">>,
      <<"name", "label", "mountpoint", "type", "rm", "fstype", "uuid">> }

\* lsblk prints an entry on one line, or a field on each line.
Layouts == {"entry per line", "field per line"}

\* '"k": "v"' or '"k": null'.
FieldText(k, v) ==
    <<"'", k, "'", ":", " ">> \o (IF v = "null" THEN <<"null">> ELSE <<"'", v, "'">>)

\* The fields of entry e that are present, in the given order.
PresentFields(e, order) == SelectSeq(order, LAMBDA k : e[k] # "absent")

\* The fields with ", " between them.
RECURSIVE FieldsText(_, _)
FieldsText(e, ks) ==
    IF ks = <<>>
    THEN <<>>
    ELSE FieldText(Head(ks), e[Head(ks)]) \o
         (IF Len(ks) > 1 THEN <<",", " ">> ELSE <<>>) \o FieldsText(e, Tail(ks))

\* The lines of lsblk's output for the one entry e.
LsblkOutput(e, order, layout) ==
    LET ks == PresentFields(e, order)
        entry == IF layout = "entry per line"
                 THEN << <<" ", "{">> \o FieldsText(e, ks) \o <<"}">> >>
                 ELSE << <<" ", "{">> >> \o
                      [i \in 1..Len(ks) |->
                          <<" ", " ">> \o FieldText(ks[i], e[ks[i]]) \o
                          (IF i < Len(ks) THEN <<",">> ELSE <<>>)] \o
                      << <<" ", "}">> >>
    IN  << <<"{">>, <<" ", "'", "blockdevices", "'", ":", " ", "[">> >> \o entry \o
        << <<" ", "]">>, <<"}">> >>

\* strings.Index: the place of the first sub in s, counted from 0, or -1.
IndexOf(s, sub) ==
    LET hits == { i \in 0..(Len(s) - Len(sub)) : SubSeq(s, i + 1, i + Len(sub)) = sub }
    IN  IF hits = {} THEN -1 ELSE CHOOSE i \in hits : \A j \in hits : i <= j

\* s[n:].
From(s, n) == SubSeq(s, n + 1, Len(s))

\* A key in its quotes.
Quoted(k) == <<"'", k, "'">>

\* The nested ifs that read a field (lines 267-272, 299-304 and the like): from
\* skip units after the start of the key on, what stands between the next
\* double quote and the one after it; <<v>> when both are found, else <<>>.
ReadQuoted(line, k, skip) ==
    LET idx == IndexOf(line, Quoted(k))
        rest == From(line, idx + skip)
        idx2 == IndexOf(rest, <<"'">>)
        rest2 == From(rest, idx2 + 1)
        idx3 == IndexOf(rest2, <<"'">>)
    IN  IF idx >= 0 /\ idx2 >= 0 /\ idx3 >= 0
        THEN <<SubSeq(rest2, 1, idx3)>>
        ELSE <<>>

\* A Device as parseLsblkJSON makes it (lines 273-276); no Device is <<>>.
LsblkDevice(name) ==
    [Name |-> name, IsPartition |-> FALSE, IsRemovable |-> FALSE,
     IsMounted |-> FALSE, MountPoint |-> <<>>, FSType |-> <<>>,
     Label |-> <<>>, UUID |-> <<>>]

\* Lines 297-352: an optional field of the line, when it is read and is neither
\* "" nor "null", is stored.  The key and the colon are skipped before the value
\* is looked for.
StoreField(dev, line, k) ==
    LET v == ReadQuoted(line, k, 4)
        set == v # <<>> /\ v[1] # <<>> /\ v[1] # <<"null">>
    IN  IF ~set THEN dev
        ELSE IF k = "mountpoint" THEN [dev EXCEPT !.MountPoint = v[1], !.IsMounted = TRUE]
        ELSE IF k = "fstype" THEN [dev EXCEPT !.FSType = v[1]]
        ELSE IF k = "label" THEN [dev EXCEPT !.Label = v[1]]
        ELSE [dev EXCEPT !.UUID = v[1]]

\* Lines 283-295: the type and the removable flag.
StoreFlags(dev, line) ==
    LET d1 == IF Contains(line, Quoted("type")) /\ Contains(line, Quoted("disk"))
              THEN [dev EXCEPT !.IsPartition = FALSE]
              ELSE IF Contains(line, Quoted("type")) /\ Contains(line, Quoted("part"))
                   THEN [dev EXCEPT !.IsPartition = TRUE]
                   ELSE dev
    IN  IF \/ Contains(line, Quoted("rm")) /\ Contains(line, Quoted("1"))
           \/ Contains(line, Quoted("hotplug")) /\ Contains(line, Quoted("1"))
        THEN [d1 EXCEPT !.IsRemovable = TRUE]
        ELSE d1

\* The body of the loop, lines 264-382, for one line (the size is left out): st
\* is the current device, <<>> when there is none, and the devices so far.
parseLsblkJSON_line(st, untrimmed) ==
    LET line == TrimSpace(untrimmed)
        name == ReadQuoted(line, "name", 3)
        cur == IF name # <<>> THEN <<LsblkDevice(name[1])>> ELSE st.current
    IN  IF cur = <<>>
        THEN [current |-> cur, devices |-> st.devices]
        ELSE LET d1 == StoreFlags(cur[1], line)
                 d2 == StoreField(d1, line, "mountpoint")
                 d3 == StoreField(d2, line, "fstype")
                 d4 == StoreField(d3, line, "label")
                 d5 == StoreField(d4, line, "uuid")
             IN  IF Contains(line, <<"}">>) /\ ~Contains(line, <<"}", ",">>)
                 THEN [current |-> <<>>,
                       devices |-> IF d5.Name # <<>>
                                   THEN Append(st.devices, d5)
                                   ELSE st.devices]
                 ELSE [current |-> <<d5>>, devices |-> st.devices]

\* parseLsblkJSON: the loop over the lines, and the devices returned.
RECURSIVE parseLsblkJSON_lines(_, _)
parseLsblkJSON_lines(st, lines) ==
    IF lines = <<>>
    THEN st
    ELSE parseLsblkJSON_lines(parseLsblkJSON_line(st, Head(lines)), Tail(lines))

parseLsblkJSON(lines) ==
    parseLsblkJSON_lines([current |-> <<>>, devices |-> <<>>], lines).devices

\* The output of lsblk for an entry, in an order and a layout.
InitLsblk ==
    \E e \in LsblkEntries, o \in FieldOrders, l \in Layouts :
        InitState(NoMachine, {}, {}, [entry |-> e, order |-> o, layout |-> l])

\* The output is parsed.
scanLinux_parseLsblkJSON ==
    /\ result = <<>>
    /\ result' = <<parseLsblkJSON(LsblkOutput(arg.entry, arg.order, arg.layout))>>
    /\ UNCHANGED <<parts, present, osMounted, config, arg,
                   callVars, pollVars, mainVars>>

LsblkSpec == InitLsblk /\ [][scanLinux_parseLsblkJSON]_vars

\* The attribute of the parsed device for an optional field.
AttributeOf(dev, k) ==
    IF k = "mountpoint" THEN dev.MountPoint
    ELSE IF k = "fstype" THEN dev.FSType
    ELSE IF k = "label" THEN dev.Label
    ELSE dev.UUID

----------------------------------------------------------------------------
\* Mounts and unmounts of two devices that have labels and UUIDs: the mount
\* directory is computed from the display name, and the hooks get the device's
\* attributes.  A mount point is here the string of the directory.

\* The longest label looked at.
MaxName == 2

\* The hook command of both events (README: "{device}", "{mount_point}").
LabelledHook == <<"echo", " ", "{device}", " ", "{mount_point}">>

\* Two devices at different paths, each with a label of letters, spaces,
\* underscores and slashes (or none) and with no UUID, a UUID of two characters,
\* or one of two UUIDs of nine characters that share their first eight.
InitLabelled ==
    \E l1, l2 \in UNION { [1..n -> {"a", " ", "_", "/"}] : n \in 0..MaxName },
       u1, u2 \in { <<>>, <<"1", "2">>,
                    <<"1", "2", "3", "4", "-", "A", "B", "C", "D">>,
                    <<"1", "2", "3", "4", "-", "A", "B", "C", "E">> } :
        InitState(NoMachine, {}, {},
                  << [Path |-> <<"/dev/da0p1">>, Name |-> <<"da0p1">>,
                      Label |-> l1, UUID |-> u1],
                     [Path |-> <<"/dev/da1p1">>, Name |-> <<"da1p1">>,
                      Label |-> l2, UUID |-> u2] >>)

\* The daemon's view: each device's mount state, the keys of d.mounted, the last
\* hook dispatched (its event, its command, the mount point the event is
\* about), and whether a slice expression has ended the process.
Labelled ==
    IF result # <<>>
    THEN result[1]
    ELSE [devs |-> [i \in 1..2 |-> [IsMounted |-> FALSE, MountPoint |-> <<>>]],
          mounted |-> {},
          hook |-> [event |-> "", command |-> <<>>, at |-> <<>>],
          panic |-> FALSE]

\* GetDisplayName, line 691: d.UUID[:8] is out of range for a UUID of fewer than
\* 8 characters, which is reached when there is no label.
GetDisplayName_panics(d) == d.Label = <<>> /\ d.UUID # <<>> /\ Len(d.UUID) < 8

\* The device as executeEventHook reads it.
HookDevice(i, st) ==
    [Path |-> arg[i].Path, Label |-> arg[i].Label, UUID |-> arg[i].UUID,
     MountPoint |-> st.devs[i].MountPoint]

\* mountDevice for device i with a mount tool that succeeds (lines 200-257): the
\* directory is computed, and no one looks whether it is a mount point already;
\* the record is marked and stored, and the device_mounted hook dispatched.
mountDevice_labelled(i) ==
    /\ ~Labelled.panic
    /\ ~Labelled.devs[i].IsMounted
    /\ IF GetDisplayName_panics(arg[i])
       THEN result' = <<[Labelled EXCEPT !.panic = TRUE]>>
       ELSE LET mountPoint == PathString(GetMountDirectory(arg[i], MountBase))
                st == [Labelled EXCEPT
                         !.devs[i] = [IsMounted |-> TRUE, MountPoint |-> mountPoint],
                         !.mounted = @ \cup {i}]
            IN  result' = <<[st EXCEPT
                               !.hook = [event |-> "device_mounted",
                                         command |-> HookCommand(LabelledHook,
                                                                 HookDevice(i, st)),
                                         at |-> mountPoint]]>>
    /\ UNCHANGED <<parts, present, osMounted, config, arg,
                   callVars, pollVars, mainVars>>

\* unmountDevice for device i with a umount that succeeds (lines 268-302): the
\* record is cleared, the entry deleted, and the device_unmounted hook
\* dispatched with the record as it then is.
unmountDevice_labelled(i) ==
    /\ ~Labelled.panic
    /\ Labelled.devs[i].IsMounted
    /\ LET mountPoint == Labelled.devs[i].MountPoint
           st == [Labelled EXCEPT
                    !.devs[i] = [IsMounted |-> FALSE, MountPoint |-> <<>>],
                    !.mounted = @ \ {i}]
       IN  result' = <<[st EXCEPT
                          !.hook = [event |-> "device_unmounted",
                                    command |-> HookCommand(LabelledHook,
                                                            HookDevice(i, st)),
                                    at |-> mountPoint]]>>
    /\ UNCHANGED <<parts, present, osMounted, config, arg,
                   callVars, pollVars, mainVars>>

NextLabelled ==
    \/ \E i \in 1..2 : mountDevice_labelled(i)
    \/ \E i \in 1..2 : unmountDevice_labelled(i)

LabelledSpec == InitLabelled /\ [][NextLabelled]_vars

----------------------------------------------------------------------------
\* The per-device configuration on its own: the lookup of a device's entry by
\* its three identifiers, and the two settings read through it.

\* The longest list of device entries looked at.
MaxEntries == 2

\* The lists of at most MaxEntries entries.  An entry names a label ("L", or
\* "M", which no device here has), a UUID or a path, or nothing at all.
EntryLists(automounts, options) ==
    LET entries ==
          { [IDLabel |-> id[1], IDUUID |-> id[2], DevicePath |-> id[3],
             Automount |-> a, Options |-> o] :
              id \in { <<"L", "", "">>, <<"", "U", "">>, <<"", "", "P">>,
                       <<"", "", "">>, <<"M", "", "">> },
              a \in automounts, o \in options }
    IN  UNION { [1..n -> entries] : n \in 0..MaxEntries }

\* A configuration and a device, with or without label and UUID; in the one
\* family the entries differ in their automount value, in the other in their
\* options.
InitDeviceConfig ==
    \E l \in {"", "L"}, u \in {"", "U"}, p \in {"P", "Q"} :
        \/ \E ds \in EntryLists({"nil", "true", "false"}, {<<>>}), g \in BOOLEAN :
              InitState(NoMachine, {}, {},
                        [Devices |-> ds, Automount |-> g, fstype |-> "vfat",
                         label |-> l, uuid |-> u, path |-> p])
        \/ \E ds \in EntryLists({"nil"}, {<<>>, <<"noexec", "nosuid">>}),
              f \in {"vfat", "ufs", "unknown"} :
              InitState(NoMachine, {}, {},
                        [Devices |-> ds, Automount |-> TRUE, fstype |-> f,
                         label |-> l, uuid |-> u, path |-> p])

\* config.MountOptions.Default: a type with options and one with none.
MountOptionsDefault ==
    [t \in {"vfat", "ufs"} |-> IF t = "vfat" THEN <<"longnames">> ELSE <<>>]

\* Config.GetDeviceConfig, lines 145-159: the loop over the entries; what it
\* returns is the place of the entry in the list, 0 for nil.
RECURSIVE Config_GetDeviceConfig(_, _, _, _, _)
Config_GetDeviceConfig(devs, i, label, uuid, path) ==
    IF i > Len(devs)
    THEN 0
    ELSE IF \/ devs[i].IDLabel # "" /\ devs[i].IDLabel = label
            \/ devs[i].IDUUID # "" /\ devs[i].IDUUID = uuid
            \/ devs[i].DevicePath # "" /\ devs[i].DevicePath = path
         THEN i
         ELSE Config_GetDeviceConfig(devs, i + 1, label, uuid, path)

\* A ShouldAutomountDevice that takes an entry without automount value for one
\* that says false.
Config_ShouldAutomountDevice_NilIsFalse(cfg, label, uuid, path) ==
    LET devCfg == Config_GetDeviceConfig(cfg.Devices, 1, label, uuid, path)
    IN  IF devCfg # 0
        THEN cfg.Devices[devCfg].Automount = "true"
        ELSE cfg.Automount

\* Config.ShouldAutomountDevice, lines 171-177.
Config_ShouldAutomountDevice(cfg, label, uuid, path) ==
    LET devCfg == Config_GetDeviceConfig(cfg.Devices, 1, label, uuid, path)
    IN  IF devCfg # 0 /\ cfg.Devices[devCfg].Automount # "nil"
        THEN cfg.Devices[devCfg].Automount = "true"
        ELSE cfg.Automount

\* A GetMountOptions that adds the default of the type to the entry's options.
Config_GetMountOptions_Merges(cfg, fstype, label, uuid, path) ==
    LET devCfg == Config_GetDeviceConfig(cfg.Devices, 1, label, uuid, path)
        default == IF fstype \in DOMAIN MountOptionsDefault
                   THEN MountOptionsDefault[fstype]
                   ELSE <<>>
    IN  IF devCfg # 0 /\ Len(cfg.Devices[devCfg].Options) > 0
        THEN cfg.Devices[devCfg].Options \o default
        ELSE default

\* Config.GetMountOptions, lines 180-193.
Config_GetMountOptions(cfg, fstype, label, uuid, path) ==
    LET devCfg == Config_GetDeviceConfig(cfg.Devices, 1, label, uuid, path)
    IN  IF devCfg # 0 /\ Len(cfg.Devices[devCfg].Options) > 0
        THEN cfg.Devices[devCfg].Options
        ELSE IF fstype \in DOMAIN MountOptionsDefault
             THEN MountOptionsDefault[fstype]
             ELSE <<>>

\* Both settings are read for the device (daemon.go 160 and 220).
Config_read ==
    /\ result = <<>>
    /\ result' =
         << [automount |-> Config_ShouldAutomountDevice(arg, arg.label, arg.uuid, arg.path),
             options |-> Config_GetMountOptions(arg, arg.fstype, arg.label, arg.uuid,
                                                arg.path)] >>
    /\ UNCHANGED <<parts, present, osMounted, config, arg,
                   callVars, pollVars, mainVars>>

DeviceConfigSpec == InitDeviceConfig /\ [][Config_read]_vars

\* The places of the entries that match the device: an entry matches by a
\* non-empty identifier that equals the device's.
Matching ==
    { i \in 1..Len(arg.Devices) :
        \/ arg.Devices[i].IDLabel # "" /\ arg.Devices[i].IDLabel = arg.label
        \/ arg.Devices[i].IDUUID # "" /\ arg.Devices[i].IDUUID = arg.uuid
        \/ arg.Devices[i].DevicePath # "" /\ arg.Devices[i].DevicePath = arg.path }

\* The first of them.
FirstMatching == CHOOSE i \in Matching : \A j \in Matching : i <= j

----------------------------------------------------------------------------
\* Shutdown of pgmountd: main's signal path and the tray's quit callback each
\* close the three stop channels, and the goroutines that listen on them return.
\* The input is whether the tray is enabled (then trayStopChan and trayIcon are
\* not nil).

StopChannels == {"trayStopChan", "closeChan", "stopChan"}

\* After New, the callbacks and d.Start(): main waits for a signal, the quit
\* item's handler waits for a click, the ticker goroutine, handleUpdates and
\* monitorDevd run; no channel has been closed.
InitShutdown == \E tray \in BOOLEAN : InitState(NoMachine, {}, {}, tray)

\* The process: closes counts the close statements executed on each channel, at
\* is the position of main ("main") and of the quit item's handler ("quit"),
\* running the goroutines that have not returned, panic a close of a closed
\* channel, exited the end of the process.
Shutdown ==
    IF result # <<>>
    THEN result[1]
    ELSE [closes |-> [c \in StopChannels |-> 0],
          at |-> [main |-> "sigChan", quit |-> IF arg THEN "select" ELSE "none"],
          running |-> IF arg THEN {"ticker", "handleUpdates", "monitorDevd"}
                      ELSE {"monitorDevd"},
          panic |-> FALSE,
          exited |-> FALSE]

ShutdownAlive == ~Shutdown.panic /\ ~Shutdown.exited

ShutdownStep(st) ==
    /\ ShutdownAlive
    /\ result' = <<st>>
    /\ UNCHANGED <<parts, present, osMounted, config, arg,
                   callVars, pollVars, mainVars>>

\* close(c) by t, which goes on to next: the close of a closed channel panics.
closeChannel(st, c, t, next) ==
    IF st.closes[c] > 0
    THEN [st EXCEPT !.closes[c] = 2, !.panic = TRUE]
    ELSE [st EXCEPT !.closes[c] = 1, !.at[t] = next]

\* main, <-sigChan: SIGINT or SIGTERM arrives.
main_sigChan ==
    /\ Shutdown.at["main"] = "sigChan"
    /\ ShutdownStep([Shutdown EXCEPT !.at["main"] = "trayStopChan"])

\* handleMenuItem of the quit item, case <-item.ClickedCh: onQuit calls the
\* quit callback.
handleMenuItem_clicked ==
    /\ Shutdown.at["quit"] = "select"
    /\ ShutdownStep([Shutdown EXCEPT !.at["quit"] = "trayStopChan"])

\* handleMenuItem of the quit item, case <-i.closeChan: return.
handleMenuItem_closed ==
    /\ Shutdown.at["quit"] = "select"
    /\ Shutdown.closes["closeChan"] > 0
    /\ ShutdownStep([Shutdown EXCEPT !.at["quit"] = "returned"])

\* if trayStopChan != nil { close(trayStopChan) }, in main and in the callback.
close_trayStopChan(t) ==
    /\ Shutdown.at[t] = "trayStopChan"
    /\ ShutdownStep(IF arg THEN closeChannel(Shutdown, "trayStopChan", t, "Close")
                    ELSE [Shutdown EXCEPT !.at[t] = "Stop"])

\* Icon.Close: close(i.closeChan), systray.Quit().
Icon_Close(t) ==
    /\ Shutdown.at[t] = "Close"
    /\ ShutdownStep(closeChannel(Shutdown, "closeChan", t, "Stop"))

\* Daemon.Stop up to d.wg.Wait(): close(d.stopChan).
Daemon_Stop(t) ==
    /\ Shutdown.at[t] = "Stop"
    /\ ShutdownStep(closeChannel(Shutdown, "stopChan", t, "Wait"))

\* d.wg.Wait() returns once monitorDevd has; main then returns, and the
\* callback calls os.Exit(0).
Daemon_Stop_Wait(t) ==
    /\ Shutdown.at[t] = "Wait"
    /\ "monitorDevd" \notin Shutdown.running
    /\ ShutdownStep([Shutdown EXCEPT !.at[t] = "done", !.exited = TRUE])

\* The channel on which each goroutine's select returns.
ListensOn(g) ==
    IF g = "ticker" THEN "trayStopChan"
    ELSE IF g = "handleUpdates" THEN "closeChan"
    ELSE "stopChan"

\* A goroutine's select takes the case of its closed channel and returns.
goroutine_returns(g) ==
    /\ g \in Shutdown.running
    /\ Shutdown.closes[ListensOn(g)] > 0
    /\ ShutdownStep([Shutdown EXCEPT !.running = @ \ {g}])

NextShutdown ==
    \/ main_sigChan
    \/ handleMenuItem_clicked
    \/ handleMenuItem_closed
    \/ \E t \in {"main", "quit"} :
         \/ close_trayStopChan(t)
         \/ Icon_Close(t)
         \/ Daemon_Stop(t)
         \/ Daemon_Stop_Wait(t)
    \/ \E g \in {"ticker", "handleUpdates", "monitorDevd"} : goroutine_returns(g)

ShutdownSpec == InitShutdown /\ [][NextShutdown]_vars

----------------------------------------------------------------------------
\* The tray's Eject on a mounted partition: onUnmountDevice, then the command
\* "pgumount --detach <path>".  The inputs are the partition's name and whether
\* the unmount callback is set.

\* The names of the partitions looked at, as their characters.
EjectNames ==
    { <<"d", "a", "0", "p", "1">>, <<"d", "a", "0", "s", "1">>,
      <<"d", "a", "0", "p", "1", "2">>, <<"d", "a", "0">>, <<"c", "d", "0">> }

\* A mounted removable partition is shown in the menu.
InitEject ==
    \E name \in EjectNames, callback \in BOOLEAN :
        InitState(NoMachine, {}, {}, [Name |-> name, onUnmountFunc |-> callback])

\* at is the position of onEjectDevice and of the pgumount run it waits for,
\* flagDetach whether that run was given --detach, osMounted the mount table's
\* word on the partition, unmount the outcome of onUnmountDevice, exit the way
\* the last pgumount run ended, detach the last detach tool pgumount ran and disk
\* the disk name it was given, notified the last notification.
Eject ==
    IF result # <<>>
    THEN result[1]
    ELSE [at |-> "menu", flagDetach |-> FALSE, osMounted |-> TRUE,
          unmount |-> "none", exit |-> "none", detach |-> "none", disk |-> <<>>,
          notified |-> "none"]

EjectStep(st) ==
    /\ result' = <<st>>
    /\ UNCHANGED <<parts, present, osMounted, config, arg,
                   callVars, pollVars, mainVars>>

\* What onUnmountDevice leaves: its notification, and onEjectDevice goes on to
\* "Then eject" whether the unmount succeeded or not.
AfterUnmount(st, ok) ==
    [st EXCEPT !.at = "onEjectDevice",
               !.unmount = IF ok THEN "ok" ELSE "failed",
               !.notified = IF ok THEN "Device Unmounted" ELSE "Unmount Failed"]

\* onEjectDevice, "First unmount": onUnmountDevice with the callback set, which
\* is Daemon.UnmountDevice; its umount succeeds or not.
Icon_onUnmountDevice(ok) ==
    /\ Eject.at = "menu"
    /\ arg.onUnmountFunc
    /\ EjectStep(AfterUnmount([Eject EXCEPT !.osMounted = ~ok], ok))

\* onUnmountDevice with no callback: the command "pgumount <path>" is started.
Icon_onUnmountDevice_fallback ==
    /\ Eject.at = "menu"
    /\ ~arg.onUnmountFunc
    /\ EjectStep([Eject EXCEPT !.at = "pgumount", !.flagDetach = FALSE])

\* onUnmountDevice with no callback, after cmd.Run().
Icon_onUnmountDevice_ran ==
    /\ Eject.at = "exited"
    /\ ~Eject.flagDetach
    /\ EjectStep(AfterUnmount([Eject EXCEPT !.exit = "none"],
                              Eject.exit = "Unmounted"))

\* onEjectDevice, "Then eject": the command "pgumount --detach <path>" is
\* started.
Icon_onEjectDevice_detach ==
    /\ Eject.at = "onEjectDevice"
    /\ EjectStep([Eject EXCEPT !.at = "pgumount", !.flagDetach = TRUE])

\* pgumount main, lines 62-68: mgr.Scan().
pgumount_Scan(ok) ==
    /\ Eject.at = "pgumount"
    /\ EjectStep(IF ok THEN [Eject EXCEPT !.at = "target"]
                 ELSE [Eject EXCEPT !.at = "exited", !.exit = "Failed to scan devices"])

\* pgumount main, lines 70-85: the target is found by its path; a target that
\* is not mounted ends the run.
pgumount_target(st) ==
    IF ~st.osMounted
    THEN [st EXCEPT !.at = "exited", !.exit = "Device not mounted"]
    ELSE [st EXCEPT !.at = "unmountDevice"]

pgumount_IsMounted ==
    /\ Eject.at = "target"
    /\ EjectStep(pgumount_target(Eject))

\* pgumount main, lines 87-93, and unmountDevice: the run ends here without
\* --detach.
pgumount_unmountDevice(ok) ==
    /\ Eject.at = "unmountDevice"
    /\ EjectStep(IF ~ok
                 THEN [Eject EXCEPT !.at = "exited",
                                    !.exit = "Failed to unmount device"]
                 ELSE IF Eject.flagDetach
                 THEN [Eject EXCEPT !.at = "detachDevice", !.osMounted = FALSE]
                 ELSE [Eject EXCEPT !.at = "exited", !.osMounted = FALSE,
                                    !.exit = "Unmounted"])

\* detachDevice, lines 133-139: the disk of a partition name.
diskName(name) ==
    IF Len(name) > 2 /\ name[Len(name) - 1] = "p"
    THEN SubSeq(name, 1, Len(name) - 2)
    ELSE name

\* detachDevice, lines 142-144: camcontrol eject.
detachDevice_camcontrol(ok) ==
    /\ Eject.at = "detachDevice"
    /\ EjectStep([Eject EXCEPT !.detach = "camcontrol",
                               !.disk = diskName(arg.Name),
                               !.at = IF ok THEN "exited" ELSE "usbconfig",
                               !.exit = IF ok THEN "Detached" ELSE "none"])

\* detachDevice, lines 146-150: usbconfig power_off.
detachDevice_usbconfig(ok) ==
    /\ Eject.at = "usbconfig"
    /\ EjectStep([Eject EXCEPT !.detach = "usbconfig",
                               !.at = "exited",
                               !.exit = IF ok THEN "Detached"
                                        ELSE "Failed to detach device"])

\* onEjectDevice after cmd.Run(): the notification.
Icon_onEjectDevice_notify ==
    /\ Eject.at = "exited"
    /\ Eject.flagDetach
    /\ EjectStep([Eject EXCEPT !.at = "done",
                               !.notified = IF Eject.exit = "Detached"
                                            THEN "Device Ejected"
                                            ELSE "Eject Failed"])

NextEject ==
    \/ \E ok \in BOOLEAN :
         \/ Icon_onUnmountDevice(ok)
         \/ pgumount_Scan(ok)
         \/ pgumount_unmountDevice(ok)
         \/ detachDevice_camcontrol(ok)
         \/ detachDevice_usbconfig(ok)
    \/ Icon_onUnmountDevice_fallback
    \/ Icon_onUnmountDevice_ran
    \/ Icon_onEjectDevice_detach
    \/ pgumount_IsMounted
    \/ Icon_onEjectDevice_notify

EjectSpec == InitEject /\ [][NextEject]_vars

\* The handler and the command it runs go on, and each tool ends.
EjectFairSpec == EjectSpec /\ WF_vars(NextEject)

----------------------------------------------------------------------------
\* Properties.

\* The positions of a thread that is inside mountDevice, past its entry check.
InMount == {"m_passcmd", "m_stdin", "m_geli", "m_tool", "m_book"}

\* The positions of a thread that is inside unmountDevice, past its entry check.
InUnmount == {"u_tool", "u_book"}

\* The path of the record thread t holds.
PathOf(t) == heap[rec[t]].Path

\* The poll loop has finished both loops of a tick.
TickDone == pc["poll"] = "loop" /\ devices = <<>> /\ known \ current = {}

\* C1: concurrent mount requests for one path invoke the mount tool once: no two
\* threads are at the same time in the mount tool (or its bookkeeping) for one path.
C1_OneMountInvocation ==
    \A t \in Threads, u \in Threads :
        (t # u /\ pc[t] \in {"m_tool", "m_book"} /\ pc[u] \in {"m_tool", "m_book"})
            => PathOf(t) # PathOf(u)

\* C2: while an unmountDevice call for a path is between its IsMounted check and its
\* bookkeeping update, no other mountDevice or unmountDevice call for that path is
\* past its own entry check.
C2_UnmountExclusive ==
    \A t \in Threads, u \in Threads :
        (t # u /\ pc[t] \in InUnmount /\ pc[u] \in InMount \cup InUnmount)
            => PathOf(t) # PathOf(u)

\* C3: within one tick no path gets both an Added and a Removed event; when the
\* tick's loops are done, Added was called exactly for the scanned paths that were
\* not known and Removed exactly for the known paths the scan did not list.
C3_AddedXorRemoved ==
    /\ tickAdded \cap tickRemoved = {}
    /\ TickDone => /\ tickAdded = current \ prevKnown
                   /\ tickRemoved = prevKnown \ current

\* C3, reached: a tick that called Added for one path and Removed for another,
\* which an earlier tick had added.
C3_Witness ==
    /\ TickDone
    /\ tickAdded # {}
    /\ tickRemoved # {}

\* C4: when Stop has returned, no mount, unmount or unlock action started through
\* the daemon is in progress, those of the tray callbacks included.
C4_StopWaitsForActions ==
    mainpc = "stopped" => \A t \in Threads : pc[t] \notin InMount \cup InUnmount

\* C5: once the poll loop has observed the stop signal it does nothing more (no
\* scan, no call), and when Stop returns the poll loop has observed it.
C5_NoWorkAfterStop ==
    [][ /\ pc["poll"] = "exited" =>
            /\ pc'["poll"] = "exited"
            /\ rec'["poll"] = rec["poll"]
            /\ UNCHANGED pollVars
        /\ mainpc' = "stopped" => pc'["poll"] = "exited" ]_vars

\* C5, reached: Stop has returned from a daemon whose poll loop had worked.
C5_Witness ==
    /\ mainpc = "stopped"
    /\ pc["poll"] = "exited"
    /\ known # {}
    /\ \E p \in Paths : mounted[p] # 0

\* C6: after Stop is called on a started daemon, Stop eventually returns, with
\* nothing assumed of the terminal.
C6_StopReturns == (mainpc = "stopping") ~> (mainpc = "stopped")

\* C7: a mount or unlock of one device that is still running does not keep the
\* poll loop from the removal of another device: while a known device is gone and
\* waits for its Removed handling, the poll goroutine is not itself waiting in the
\* unlock or mount of a different device.
C7_RemovalNotBlocked ==
    pc["poll"] \in {"m_passcmd", "m_stdin", "m_geli", "m_tool"}
        => \A q \in known \ present : q = PathOf("poll")

\* C8: mount, then unmount of the same record. A successful umount clears the
\* record (IsMounted = false, empty MountPoint); the return that follows it is nil,
\* leaves d.mounted without an entry for the path and does not touch the record, so
\* that a daemon with no tray callbacks returns with the record cleared.
C8_RoundTrip ==
    [][ \A t \in Threads :
          /\ (pc[t] = "u_tool" /\ pc'[t] = "u_book") =>
                /\ ~heap'[rec[t]].IsMounted
                /\ heap'[rec[t]].MountPoint = <<>>
          /\ (pc[t] = "u_book" /\ pc'[t] = "u_ret") =>
                /\ ret'[t] = "ok"
                /\ mounted'[PathOf(t)] = 0
                /\ heap'[rec[t]] = heap[rec[t]]
                /\ ~config.TrayEnabled =>
                      /\ ~heap'[rec[t]].IsMounted
                      /\ heap'[rec[t]].MountPoint = <<>> ]_vars

\* C8, reached: the poll loop has unmounted the record that mountDevice had stored
\* in d.mounted.
C8_Witness ==
    /\ pc["poll"] = "u_ret"
    /\ ret["poll"] = "ok"
    /\ mounted[PathOf("poll")] = 0
    /\ ~heap[rec["poll"]].IsMounted

\* C9: a failed umount changes nothing: unmountDevice returns the error, d.mounted
\* and the records stay as they are, the record still mounted at its mount point.
C9_FailedUnmountKeeps ==
    [][ \A t \in Threads :
          (pc[t] = "u_tool" /\ pc'[t] = "u_ret") =>
             /\ ret'[t] = "err_umount"
             /\ mounted' = mounted
             /\ heap' = heap
             /\ heap'[rec[t]].IsMounted
             /\ heap'[rec[t]].MountPoint = MountDirectory(PathOf(t)) ]_vars

\* C9, reached: umount has failed for the record of d.mounted, which is still
\* there for a later attempt.
C9_Witness ==
    \E t \in Threads :
        /\ pc[t] = "u_ret"
        /\ ret[t] = "err_umount"
        /\ mounted[PathOf(t)] = rec[t]
        /\ heap[rec[t]].IsMounted

\* C10: when a tick has handled the removal of a path, d.mounted has no entry for
\* it, whatever umount did. Stated for the poll loop on its own (no tray callbacks),
\* where only the tick itself writes d.mounted.
C10_RemovedNotTracked ==
    (TickDone /\ ~config.TrayEnabled) => \A p \in tickRemoved : mounted[p] = 0

\* C11: umount is invoked only for a path tracked in d.mounted: when a tray callback
\* calls Daemon.UnmountDevice with a record whose path has no entry in d.mounted,
\* the call returns an error and does not start the umount tool.
C11_UnmountOnlyTracked ==
    [][ \A t \in TrayThreads :
          (pc[t] = "unmount_item" /\ pc'[t] \in {"u_tool", "u_ret"} /\ mounted[PathOf(t)] = 0)
             => (pc'[t] = "u_ret" /\ ret'[t] = "err_notmounted") ]_vars

\* C12: the poll loop's automount reaches the unlocker or the mount tool only for a
\* partition that the policy does not ignore and says to automount (its entry's
\* automount, else the global setting) and whose record is not yet mounted.
C12_AutomountEntry ==
    pc["poll"] \in {"m_passcmd", "m_stdin", "m_geli", "m_tool"} =>
        LET p == PathOf("poll")
            e == GetDeviceConfig(config, p)
        IN  /\ p \in {"da0p1", "da1p1"}
            /\ ~e.Ignore
            /\ e.Automount # "false"
            /\ e.Automount = "nil" => config.Automount
            /\ ~heap[rec["poll"]].IsMounted

\* C12, reached: an earlier tick has added the bare disk da2 without mounting it,
\* and this one automounts da0p1 on the word of its device_config entry, the
\* global setting being off.
C12_Witness ==
    /\ pc["poll"] = "m_tool"
    /\ PathOf("poll") = "da0p1"
    /\ ~config.Automount
    /\ config.Devices # <<>>
    /\ "da2" \in known
    /\ mounted["da2"] = 0

\* C13: a device whose device_config entry says ignore: true is never mounted: no
\* mount-all operation hands it to the mount tool.
C13_IgnoredNeverMounted ==
    pc["mountall"] = "m_tool" => ~GetDeviceConfig(config, PathOf("mountall")).Ignore

\* C20: a mount-all operation attempts every unmounted partition of its scan, each
\* on its own: every device the loop has passed that the filter wants was handed to
\* mountDevice, whatever the earlier mounts returned, and the operation returns only
\* when the loop has passed the whole list.
C20_MountAllIndependent ==
    /\ \A k \in 1..Len(mountAll.devices) :
          (k < mountAll.i /\ MountAllWants(mountAll.devices[k]))
             => mountAll.devices[k].Path \in mountAll.tried
    /\ (mainpc = "returned" /\ mountAll.i > 0) => mountAll.i > Len(mountAll.devices)
    /\ mountAll.failed \subseteq mountAll.tried

\* C20, reached: the operation has returned; the mount of one device failed and the
\* device after it in the list was attempted all the same.
C20_Witness ==
    /\ mainpc = "returned"
    /\ \E j \in 1..Len(mountAll.devices), k \in 1..Len(mountAll.devices) :
          /\ j < k
          /\ mountAll.devices[j].Path \in mountAll.failed
          /\ mountAll.devices[k].Path \in mountAll.tried

\* C14: the configuration file's automount setting decides: loaded with automount
\* false and with neither -automount nor -no-automount on the command line, the
\* configuration applyFlags leaves has Automount false, and no device is to be
\* automounted (there being no device_config entry).
C14_FileAutomountDecides ==
    (/\ result # <<>>
     /\ ~arg.cfg.Automount
     /\ arg.flags.automount = "unset"
     /\ ~arg.flags.noAutomount)
        => /\ ~result[1].Automount
           /\ \A p \in Paths : ~ShouldAutomountDevice(result[1], p)

\* C15: whatever the label, the directory GetMountDirectory computes lies strictly
\* inside the base (base plus one component), and that component has no "/", no
\* space, no shell metacharacter and no leading dot, and is not "..".
C15_MountDirectoryInsideBase ==
    (result # <<>> /\ arg.Label # <<>>) =>
        LET dir == result[1] IN
        /\ Len(dir) = Len(MountBase) + 1
        /\ SubSeq(dir, 1, Len(MountBase)) = MountBase
        /\ LET name == dir[Len(dir)] IN
           /\ name # <<>>
           /\ \A i \in 1..Len(name) : name[i] \notin {"/", " ", ";", "$"}
           /\ name[1] # "."

\* C16: the device's attributes reach the hook's command as argument values only:
\* for two devices that differ in label or UUID the shell runs commands of the same
\* structure (as many commands, each with as many words).
C16_HookStructure ==
    result # <<>> => Structure(result[1]) = Structure(result[2])

\* C17: for a GELI volume that is not unlocked mountDevice unlocks first: the mount
\* tool is started for it only once the unlock has succeeded, and a failed unlock
\* (GELI support off, no passphrase, "geli attach" failed) makes mountDevice return
\* the error straight from the unlock, with the mount table and d.mounted as they were.
C17_UnlockBeforeMount ==
    [][ \A t \in Threads :
          /\ (pc[t] # "m_tool" /\ pc'[t] = "m_tool" /\ IsEncrypted(heap'[rec'[t]].Path))
                => heap'[rec'[t]].IsUnlocked
          /\ (pc[t] # "m_ret" /\ pc'[t] = "m_ret" /\ ret'[t] = "err_unlock") =>
                /\ pc[t] \notin {"m_tool", "m_book"}
                /\ IsEncrypted(heap'[rec'[t]].Path)
                /\ ~heap'[rec'[t]].IsUnlocked
                /\ ~heap'[rec'[t]].IsMounted
                /\ mounted' = mounted
                /\ osMounted' = osMounted
          /\ (pc[t] \in {"m_passcmd", "m_stdin", "m_geli"} /\ pc'[t] # pc[t]
              /\ ~heap'[rec'[t]].IsUnlocked)
                => (pc'[t] = "m_ret" /\ ret'[t] = "err_unlock") \/ pc'[t] = "m_geli" ]_vars

\* C17, reached: the unlock of the poll loop's volume has failed (no passphrase, or
\* "geli attach" failed) and mountDevice has returned the error.
C17_Witness ==
    /\ pc["poll"] = "m_ret"
    /\ ret["poll"] = "err_unlock"
    /\ config.GELIEnabled
    /\ ~heap[rec["poll"]].IsUnlocked
    /\ mounted[PathOf("poll")] = 0

\* C18: once unlockDevice has succeeded for a path, the daemon's bookkeeping by
\* path says so: when the mountDevice call that unlocked the volume returns,
\* whatever it returns, d.mounted holds for the path a record with IsUnlocked.
\* Stated for the poll loop on its own (no tray callbacks).
C18_UnlockedIsKept ==
    (/\ ~config.TrayEnabled
     /\ pc["poll"] = "m_ret"
     /\ heap[rec["poll"]].IsUnlocked)
        => /\ mounted[PathOf("poll")] # 0
           /\ heap[mounted[PathOf("poll")]].IsUnlocked

\* C19: when the mount tool exits non-zero, mountDevice returns at once an error
\* that carries the tool's output; d.mounted and the mount table stay as they were
\* and the record stays unmounted, with no mount point. (The hook and the file
\* manager are started by the step after the bookkeeping, which a failed mount
\* does not take.)
C19_FailedMountKeeps ==
    [][ \A t \in Threads :
          (pc[t] = "m_tool" /\ pc'[t] = "m_ret") =>
             /\ \E out \in ToolOutputs : ret'[t] = MountFailed(out)
             /\ mounted' = mounted
             /\ osMounted' = osMounted
             /\ rec'[t] = rec[t]
             /\ ~heap'[rec[t]].IsMounted
             /\ heap'[rec[t]].MountPoint = <<>> ]_vars

\* C19, reached: the mount tool has failed and mountDevice has returned its error,
\* the path without entry in d.mounted.
C19_Witness ==
    \E t \in Threads :
        /\ pc[t] = "m_ret"
        /\ ret[t] = MountFailed("Device busy")
        /\ mounted[PathOf(t)] = 0
        /\ ~heap[rec[t]].IsMounted

\* C21: Daemon.MountAll returns to its caller the number of devices it mounted and
\* the per-device failures: what it returns after the loop has two parts, the
\* count of the devices whose mount succeeded and the failures.
C21_MountAllReports ==
    (mainpc = "returned" /\ mountAll.front = "MountAll" /\ mountAll.i > 0) =>
        /\ Len(mountAll.ret) = 2
        /\ mountAll.ret[1] = Cardinality(mountAll.tried \ mountAll.failed)
        /\ mountAll.ret[2] = mountAll.failed

\* C22: the mount tool's arguments are, in this order: "-o" and the comma-joined
\* options exactly when there are options, "-t" and the type exactly when the
\* type is neither empty nor "auto", the device path, the mount point.  The
\* options are those of GetMountOptions, and the type the detected one, except
\* that in pgmount a given -o value and a given -t value take their place.
C22_MountArguments ==
    result # <<>> =>
        LET given(v) == arg.front = "pgmount" /\ v # <<>>
            conf == GetMountOptions(arg.cfg, arg.dev.FSType, arg.dev.Path)
            joined == IF given(arg.options)
                      THEN arg.options
                      ELSE strings_Join(conf, ",")
            some == IF given(arg.options) THEN TRUE ELSE conf # <<>>
            fs == IF given(arg.fsType) THEN arg.fsType ELSE arg.dev.FSType
            typed == fs # <<>> /\ fs # <<"auto">>
            args == result[1]
            n == (IF some THEN 2 ELSE 0) + (IF typed THEN 2 ELSE 0)
        IN  /\ Len(args) = n + 2
            /\ some => args[1] = <<"-o">> /\ args[2] = joined
            /\ ~some => \A i \in 1..Len(args) : args[i] # <<"-o">>
            /\ typed => args[n - 1] = <<"-t">> /\ args[n] = fs
            /\ ~typed => \A i \in 1..Len(args) : args[i] # <<"-t">>
            /\ args[n + 1] = <<arg.dev.Path>>
            /\ args[n + 2] = PathString(MountDirectory(arg.dev.Path))

\* pgmount has built the arguments of a mount of a device of type "auto" with
\* configured options and a -o value of two options: the -o value is passed and
\* no type.
C22_Witness ==
    /\ result # <<>>
    /\ arg.front = "pgmount"
    /\ arg.dev.FSType = <<"auto">>
    /\ arg.fsType = <<>>
    /\ arg.options = <<"nosuid", ",", "ro">>
    /\ GetMountOptions(arg.cfg, arg.dev.FSType, arg.dev.Path) # <<>>
    /\ Len(result[1]) = 4

\* C23: the passphrase of an unlock is in no log line and in no error that
\* getPassword, unlockDevice or mountDevice returns; it goes to the standard
\* input of the unlock tool and nowhere else.
C23_PassphraseNotTold ==
    result # <<>> =>
        /\ \A i \in 1..Len(result[1].log) : ~Tells(result[1].log[i])
        /\ ~Tells(result[1].err)
        /\ result[1].stdin # <<>> =>
               result[1].stdin = TrimSpace(arg.line) \o <<"\n">>

\* The passphrase was read and given to geli attach, which failed: the failure
\* has been returned and logged.
C23_Witness ==
    /\ result # <<>>
    /\ result[1].pc = "done"
    /\ Tells(result[1].stdin)
    /\ result[1].err # <<>>
    /\ Len(result[1].log) = 2

\* C24: a scan fails only when every method of the platform has failed (on
\* FreeBSD the disk listing, on Linux lsblk and /sys/block), a failed scan
\* returns no list, and a scan that succeeds while a listing tool has failed has
\* fallen back to another method: its list is the list of what is attached, never
\* a shorter one the caller takes for the whole.
C24_ScanFallsBack ==
    result # <<>> =>
        LET got == result[1]
            allFailed == IF arg.goos = "freebsd"
                         THEN ~arg.tools.geom
                         ELSE ~arg.tools.lsblk /\ ~arg.tools.sysBlock
        IN  /\ got.err # "nil" => allFailed /\ got.devices = <<>>
            /\ got.err = "nil" => got.devices = WithPartitions(Disks, arg.attached)

\* C25: the Manager's map is used under mutual exclusion: while the daemon's
\* scan and a tray consumer's scan run on the same Manager, at most one thread is
\* inside an assignment to the map.
C25_MapExclusive ==
    Cardinality({t \in ScanThreads : pc[t] = "Scan_assign"}) <= 1

\* C26: in every state, also between the steps of an operation, every record
\* in the mounted map is marked mounted and has a mount point, and every
\* record is marked mounted exactly when it has a mount point.
C26_MountedMapConsistent ==
    /\ \A p \in Paths :
          mounted[p] # 0 =>
              heap[mounted[p]].IsMounted /\ heap[mounted[p]].MountPoint # <<>>
    /\ \A r \in Live : heap[r].IsMounted <=> heap[r].MountPoint # <<>>

PathRank(p) == IF p = "da0p1" THEN 1 ELSE IF p = "da1p1" THEN 2 ELSE 3

\* C28: within a tick the events are emitted in ascending order of path: an
\* Added event is for the least of the paths yet to be added, a Removed event for
\* the least of the known paths that the scan did not list.
C28_EventsInPathOrder ==
    [][ \A p \in Paths :
          /\ (p \notin tickAdded /\ p \in tickAdded') =>
                 \A i \in 1..Len(devices) :
                     devices[i].Path \notin known =>
                         PathRank(p) <= PathRank(devices[i].Path)
          /\ (p \notin tickRemoved /\ p \in tickRemoved') =>
                 \A q \in known \ current : PathRank(p) <= PathRank(q)
      ]_vars

\* C29: for every device path and every mount table, the reader of the file
\* and the reader of the command output give the device the same mount state:
\* the same IsMounted and the same MountPoint.
C29_ReadersAgree ==
    result # <<>> => result[1].file = result[1].command

\* C30: the entry yields one device; an optional field (mountpoint, fstype,
\* label, uuid) that is absent or null leaves its attribute empty, and the device
\* not mounted when the field is the mountpoint, whatever follows the field and
\* whatever the order of the fields; and an entry with mountpoint /media/USB,
\* type part and rm 1 yields a mounted, removable partition at /media/USB.
C30_LsblkOptionalFields ==
    result # <<>> =>
        /\ Len(result[1]) = 1
        /\ \A k \in OptionalFields :
              arg.entry[k] \in {"absent", "null"} =>
                  /\ AttributeOf(result[1][1], k) = <<>>
                  /\ k = "mountpoint" => ~result[1][1].IsMounted
        /\ (/\ arg.entry["mountpoint"] = "/media/USB"
            /\ arg.entry["type"] = "part"
            /\ arg.entry["rm"] = "1") =>
               /\ result[1][1].IsMounted
               /\ result[1][1].MountPoint = <<"/media/USB">>
               /\ result[1][1].IsPartition
               /\ result[1][1].IsRemovable

\* C31: two devices whose display names differ get different mount
\* directories under the same base.
C31_DirectoriesDiffer ==
    (/\ result # <<>>
     /\ result[1].mounted = {1, 2}
     /\ GetDisplayName(arg[1]) # GetDisplayName(arg[2])) =>
        result[1].devs[1].MountPoint # result[1].devs[2].MountPoint

\* C36: no two paths of the mounted map have the same mount point.
C36_MountPointsDistinct ==
    result # <<>> =>
        \A i, j \in result[1].mounted :
            i # j => result[1].devs[i].MountPoint # result[1].devs[j].MountPoint

\* C38: GetDisplayName and GetMountDirectory return a value for every device:
\* no mount ends in a slice expression out of range.
C38_DisplayNameTotal ==
    result # <<>> => ~result[1].panic

\* C39: a hook's {mount_point} is the mount point of the event: the one just
\* mounted for device_mounted, the one just unmounted from for
\* device_unmounted.
C39_HookMountPoint ==
    (result # <<>> /\ result[1].hook.event # "") =>
        \E i \in 1..2 :
            result[1].hook.command =
                HookCommand(LabelledHook,
                            [Path |-> arg[i].Path, Label |-> arg[i].Label,
                             UUID |-> arg[i].UUID, MountPoint |-> result[1].hook.at])

\* C32: ShouldAutomountDevice is the automount value of the first matching
\* entry when that entry has one, and the global setting otherwise: when no
\* entry matches, or the first matching entry has no automount value.
C32_AutomountOfFirstMatch ==
    result # <<>> =>
        result[1].automount =
            IF Matching # {} /\ arg.Devices[FirstMatching].Automount # "nil"
            THEN arg.Devices[FirstMatching].Automount = "true"
            ELSE arg.Automount

\* Two entries match the device, the first without an automount value and the
\* second with the opposite of the global setting, which is what was returned.
C32_Witness ==
    /\ result # <<>>
    /\ Matching = {1, 2}
    /\ arg.Devices[1].Automount = "nil"
    /\ arg.Devices[2].Automount = (IF arg.Automount THEN "false" ELSE "true")
    /\ result[1].automount = arg.Automount

\* C33: GetMountOptions is the option list of the first matching entry, in
\* its order, when that list is not empty; else the default list of the
\* filesystem type; else the empty list.  The two are never merged.
C33_OptionsPrecedence ==
    result # <<>> =>
        result[1].options =
            IF Matching # {} /\ arg.Devices[FirstMatching].Options # <<>>
            THEN arg.Devices[FirstMatching].Options
            ELSE IF arg.fstype = "vfat" THEN <<"longnames">> ELSE <<>>

\* A device of a type with default options matches an entry with options of its
\* own: the entry's two options were returned, in their order.
C33_Witness ==
    /\ result # <<>>
    /\ arg.fstype = "vfat"
    /\ Matching # {}
    /\ arg.Devices[FirstMatching].Options = <<"noexec", "nosuid">>
    /\ result[1].options = <<"noexec", "nosuid">>

\* C34: a tick whose scan fails emits no Added and no Removed event and leaves
\* the known-device set, the mounted map and the mount table as they were; the
\* loop is at its select again.
C34_FailedScanChangesNothing ==
    [][ (ret["poll"] # "err_scan" /\ ret'["poll"] = "err_scan") =>
            /\ known' = known
            /\ mounted' = mounted
            /\ osMounted' = osMounted
            /\ tickAdded' = {} /\ tickRemoved' = {}
            /\ pc'["poll"] = "select"
      ]_vars

\* The scan of a tick has failed while da0p1 is attached, known and mounted by
\* the daemon: it is known and mounted still.
C34_Witness ==
    /\ pc["poll"] = "select"
    /\ ret["poll"] = "err_scan"
    /\ "da0p1" \in present
    /\ "da0p1" \in known
    /\ mounted["da0p1"] # 0
    /\ "da0p1" \in osMounted

\* C35: the poll loop attempts an automount only for a path that is not known;
\* when the attempt returns, failed or not, the path is known; and a path leaves
\* the known set only in a tick whose scan did not list it.  So a failed
\* automount is not repeated while the device stays present.
C35_NoRetryWhilePresent ==
    [][ /\ (pc["poll"] = "loop" /\ pc'["poll"] \in InMount \cup {"m_ret"}) =>
               Head(devices).Path \notin known
        /\ (pc["poll"] = "m_ret" /\ pc'["poll"] = "loop") =>
               Head(devices).Path \in known'
        /\ \A p \in known \ known' : pc["poll"] \in {"loop", "u_ret"} /\ p \notin current
      ]_vars

\* The automount of da0p1 has failed in an earlier tick; a later tick has listed
\* the device and has gone past it without a mount attempt.
C35_Witness ==
    /\ pc["poll"] = "loop"
    /\ ~config.TrayEnabled
    /\ "da0p1" \in current
    /\ "da0p1" \notin tickAdded
    /\ "da0p1" \in known
    /\ ~ShouldIgnoreDevice(config, "da0p1")
    /\ ShouldAutomountDevice(config, "da0p1")
    /\ mounted["da0p1"] = 0
    /\ "da0p1" \notin osMounted


\* C37: over every interleaving of the signal path and the quit callback, each
\* stop channel is closed at most once, so that no close panics.
C37_ClosedAtMostOnce ==
    /\ \A c \in StopChannels : Shutdown.closes[c] <= 1
    /\ ~Shutdown.panic

\* C40: once Eject's unmount has succeeded, the "pgumount --detach" run that
\* follows gets to the detach step (camcontrol or usbconfig is run), unless its
\* scan of the devices fails.
C40_EjectDetaches ==
    (Eject.at = "onEjectDevice" /\ Eject.unmount = "ok")
        ~> \/ Eject.detach # "none"
           \/ Eject.flagDetach /\ Eject.exit = "Failed to scan devices"
====
